---- MODULE Spec2Model ----
(***************************************************************************)
(* A model of the bronzemarch simulation crate: the site graph with A*     *)
(* pathfinding, party movement along graph edges, influence propagation,   *)
(* the per-day market economy, the behavior/task engine and trade/transfer *)
(* resolution, stepped by Simulation::tick.                                *)
(*                                                                         *)
(* Numbers.  The crate moves parties with f32 arithmetic and prices goods  *)
(* with f64 arithmetic.  f32 values are modelled bit-exactly (24-bit       *)
(* significand, round to nearest even) because arrival tests compare       *)
(* accumulated sums for equality.  f64 quantities of the economy are       *)
(* modelled as exact rationals.                                            *)
(***************************************************************************)
EXTENDS Integers, Naturals, Sequences, FiniteSets, TLC

(***************************************************************************)
(* IEEE-754 binary32, non-negative values.  A finite value is m * 2^e with *)
(* m = 0 (zero) or 2^23 <= m < 2^24.  Infinity is a separate value.  All   *)
(* intermediate integers stay below 2^31.                                  *)
(***************************************************************************)
F32Zero == [m |-> 0, e |-> 0]

F32Inf == [m |-> -1, e |-> 0]

F32One == [m |-> 2^23, e |-> -23]

\* q + r/den rounded to the nearest integer, ties to the even one.
RoundHalfEven(q, r, den) ==
    IF 2 * r > den \/ (2 * r = den /\ q % 2 = 1) THEN q + 1 ELSE q

\* A rounded significand may have carried into 2^24.
F32Pack(m, e) ==
    IF m = 2^24 THEN [m |-> 2^23, e |-> e + 1] ELSE [m |-> m, e |-> e]

\* Number of binary digits of n, 1 <= n < 2^30.
BitLen(n) == CHOOSE k \in 1..30 : 2^(k - 1) <= n /\ n < 2^k

\* The f32 nearest to (I + fnum/fden) * 2^e, for an integer 1 <= I < 2^28
\* and a fraction 0 <= fnum/fden < 1 (fnum = 0 whenever I < 2^24).
F32FromScaled(I, fnum, fden, e) ==
    LET k == BitLen(I) IN
    IF k <= 24
    THEN [m |-> I * 2^(24 - k), e |-> e - (24 - k)]
    ELSE LET s == k - 24
             p == 2^s
         IN F32Pack(RoundHalfEven(I \div p, (I % p) * fden + fnum, p * fden), e + s)

F32FromInt(n) == IF n = 0 THEN F32Zero ELSE F32FromScaled(n, 0, 1, 0)

F32Eq(a, b) == a = b

F32Lt(a, b) ==
    IF a = F32Inf THEN FALSE
    ELSE IF b = F32Inf THEN TRUE
    ELSE IF b.m = 0 THEN FALSE
    ELSE IF a.m = 0 THEN TRUE
    ELSE a.e < b.e \/ (a.e = b.e /\ a.m < b.m)

F32Le(a, b) == a = b \/ F32Lt(a, b)

\* a + b, both finite.
F32Add(a, b) ==
    IF a.m = 0 THEN b
    ELSE IF b.m = 0 THEN a
    ELSE LET hi == IF a.e >= b.e THEN a ELSE b
             lo == IF a.e >= b.e THEN b ELSE a
             d == hi.e - lo.e
         IN IF d > 25 THEN hi
            ELSE LET p == 2^d
                     q == lo.m \div p
                     r == lo.m % p
                     S == hi.m + q
                 IN IF S < 2^24
                    THEN F32Pack(RoundHalfEven(S, r, p), hi.e)
                    ELSE F32Pack(RoundHalfEven(S \div 2, (S % 2) * p + r, 2 * p),
                                 hi.e + 1)

\* a - b for finite a >= b.
F32Sub(a, b) ==
    IF b.m = 0 THEN a
    ELSE LET d == a.e - b.e IN
         IF d <= 2
         THEN LET D == a.m * 2^d - b.m
              IN IF D = 0 THEN F32Zero ELSE F32FromScaled(D, 0, 1, b.e)
         ELSE \* in units of 2^(a.e - 2): 4 * a.m - b.m / 2^(d - 2)
              LET A == 4 * a.m
                  far == d - 2 > 25
                  p == IF far THEN 2 ELSE 2^(d - 2)
                  bq == IF far THEN 0 ELSE b.m \div p
                  br == IF far THEN 1 ELSE b.m % p
              IN IF br = 0
                 THEN F32FromScaled(A - bq, 0, 1, a.e - 2)
                 ELSE F32FromScaled(A - bq - 1, p - br, p, a.e - 2)

\* a * b, both finite.
F32Mul(a, b) ==
    IF a.m = 0 \/ b.m = 0 THEN F32Zero
    ELSE LET L == 2^12
             a1 == a.m \div L
             a0 == a.m % L
             b1 == b.m \div L
             b0 == b.m % L
             mid == a1 * b0 + a0 * b1
             lo == (mid % L) * L + a0 * b0
             hi == a1 * b1 + mid \div L + lo \div 2^24
             rest == lo % 2^24
             \* the product of the significands is hi * 2^24 + rest
         IN IF hi >= 2^23
            THEN F32Pack(RoundHalfEven(hi, rest, 2^24), a.e + b.e + 24)
            ELSE F32Pack(RoundHalfEven(2 * hi + rest \div 2^23, rest % 2^23, 2^23),
                         a.e + b.e + 23)

\* k further binary digits of the quotient q + r/den: <<quotient, remainder>>.
RECURSIVE LongDiv(_, _, _, _)
LongDiv(q, r, den, k) ==
    IF k = 0 THEN <<q, r>>
    ELSE LET r2 == 2 * r
         IN IF r2 >= den THEN LongDiv(2 * q + 1, r2 - den, den, k - 1)
                         ELSE LongDiv(2 * q, r2, den, k - 1)

\* a / b for finite a; x/inf = 0, x/0 = inf for x > 0.
F32Div(a, b) ==
    IF b = F32Inf THEN F32Zero
    ELSE IF b.m = 0 THEN F32Inf
    ELSE IF a.m = 0 THEN F32Zero
    ELSE LET k == IF a.m >= b.m THEN 23 ELSE 24
             qr == LongDiv(a.m \div b.m, a.m % b.m, b.m, k)
         IN F32Pack(RoundHalfEven(qr[1], qr[2], b.m), a.e - b.e - k)

\* The base-4 digits of n >= 1, most significant first.
RECURSIVE Digits4(_)
Digits4(n) == IF n < 4 THEN <<n>> ELSE Append(Digits4(n \div 4), n % 4)

\* Digit-by-digit binary square root: after step i the root has i digits.
RECURSIVE SqrtSteps(_, _, _, _, _)
SqrtSteps(root, rem, ds, i, n) ==
    IF i > n THEN <<root, rem>>
    ELSE LET r == 4 * rem + (IF i <= Len(ds) THEN ds[i] ELSE 0)
             trial == 4 * root + 1
         IN IF r >= trial THEN SqrtSteps(2 * root + 1, r - trial, ds, i + 1, n)
                          ELSE SqrtSteps(2 * root, r, ds, i + 1, n)

\* f32 sqrt of the integer n, 0 <= n < 2^24.
F32SqrtInt(n) ==
    IF n = 0 THEN F32Zero
    ELSE LET ds == Digits4(n)
             rr == SqrtSteps(0, 0, ds, 1, 25)
             \* sqrt(n) = (rr[1] + delta) * 2^(Len(ds) - 25), 0 <= delta < 1
         IN F32Pack(RoundHalfEven(rr[1] \div 2,
                                  (rr[1] % 2) * 2 + (IF rr[2] = 0 THEN 0 ELSE 1), 4),
                    Len(ds) - 24)

\* f32::round (half away from zero) as an integer, for values below 2^30.
F32RoundToInt(a) ==
    IF a.m = 0 THEN 0
    ELSE IF a.e >= 0 THEN a.m * 2^(a.e)
    ELSE IF -a.e > 24 THEN 0
    ELSE LET p == 2^(-a.e)
         IN a.m \div p + (IF 2 * (a.m % p) >= p THEN 1 ELSE 0)


(***************************************************************************)
(* Option<T>: <<>> is None, <<v>> is Some(v).                              *)
(***************************************************************************)
None == <<>>

Some(v) == <<v>>

IsSome(o) == o # <<>>

Reverse(s) == [i \in 1..Len(s) |-> s[Len(s) + 1 - i]]

Min2(a, b) == IF a <= b THEN a ELSE b

Max2(a, b) == IF a >= b THEN a ELSE b

(***************************************************************************)
(* Sites (sites.rs).  SiteId keys are the slot indices 1..n in definition  *)
(* order; a tag is modelled by the index of the site it names, and any     *)
(* other value is an unknown tag.                                          *)
(***************************************************************************)
\* A V2 is <<x, y, s>>, the point (x / 2^s, y / 2^s); the points of one graph
\* share s, so that the f32 distance is the integer one scaled by 2^-s.
V2Distance(p, q) ==
    LET d == F32SqrtInt((p[1] - q[1]) * (p[1] - q[1]) + (p[2] - q[2]) * (p[2] - q[2]))
    IN IF d = F32Zero THEN F32Zero ELSE [m |-> d.m, e |-> d.e - p[3]]

SitesEmpty == [entries |-> <<>>, distances |-> <<>>]

SitesDefine(sites, pos, rgo) ==
    [sites EXCEPT !.entries =
        Append(@, [pos |-> pos, neighbours |-> <<>>, location |-> None,
                   rgo |-> rgo, influences |-> <<>>])]

insert_no_repeat(vs, id, distance) ==
    IF \A i \in 1..Len(vs) : vs[i][1] # id THEN Append(vs, <<id, distance>>) ELSE vs

\* distances is the BTreeMap keyed by (min id, max id).
SitesConnect(sites, id1, id2) ==
    LET distance == V2Distance(sites.entries[id1].pos, sites.entries[id2].pos)
        e1 == [sites.entries EXCEPT ![id1].neighbours = insert_no_repeat(@, id2, distance)]
        e2 == [e1 EXCEPT ![id2].neighbours = insert_no_repeat(@, id1, distance)]
        key == <<Min2(id1, id2), Max2(id1, id2)>>
        dom == DOMAIN sites.distances \cup {key}
    IN [entries |-> e2,
        distances |-> [k \in dom |-> IF k = key THEN distance ELSE sites.distances[k]]]

SiteIds(sites) == 1..Len(sites.entries)

SitesLookup(sites, tag) == IF tag \in SiteIds(sites) THEN Some(tag) ELSE None

SitesNeighbours(sites, id) == sites.entries[id].neighbours

SitesDistance(sites, id1, id2) ==
    IF id1 = id2 THEN F32Zero
    ELSE LET key == <<Min2(id1, id2), Max2(id1, id2)>>
         IN IF key \in DOMAIN sites.distances THEN sites.distances[key] ELSE F32Inf

(***************************************************************************)
(* Sites::astar: pathfinding::directed::astar::astar over site ids with    *)
(* the integer edge cost metric(d) and the heuristic metric(straight-line  *)
(* distance to the goal).  The queue pops the entry with the smallest      *)
(* estimated cost and, among those, the largest cost; what remains tied is *)
(* decided by tie ("lo": the node reached first, "hi": the one reached     *)
(* last).                                                                  *)
(***************************************************************************)
F32Thousand == [m |-> 16384000, e |-> -14]

metric(x) == F32RoundToInt(F32Mul(x, F32Thousand))

from_metric(c) == F32Div(F32FromInt(c), F32Thousand)

AstarHeuristic(sites, end_node, site) ==
    metric(V2Distance(sites.entries[end_node].pos, sites.entries[site].pos))

\* The index of node in the insertion-ordered parents map, 0 when absent.
ParentIndex(parents, node) ==
    IF \E i \in 1..Len(parents) : parents[i].node = node
    THEN CHOOSE i \in 1..Len(parents) : parents[i].node = node
    ELSE 0

RECURSIVE AstarPath(_, _)
AstarPath(parents, index) ==
    IF parents[index].parent = 0 THEN <<parents[index].node>>
    ELSE Append(AstarPath(parents, parents[index].parent), parents[index].node)

AstarTop(to_see, tie) ==
    LET best == {h \in to_see : \A o \in to_see :
                    h.estimated_cost < o.estimated_cost
                    \/ (h.estimated_cost = o.estimated_cost /\ h.cost >= o.cost)}
    IN IF tie = "lo"
       THEN CHOOSE h \in best : \A o \in best : h.index <= o.index
       ELSE CHOOSE h \in best : \A o \in best : h.index >= o.index

\* One successor considered: it is recorded with its parent and queued when
\* it is new (n = 0) or reached more cheaply than before.
AstarRelax(state, successor, new_cost, h, index, n) ==
    IF n = 0
    THEN <<Append(state[1], [node |-> successor, parent |-> index, cost |-> new_cost]),
           state[2] \cup {[estimated_cost |-> new_cost + h, cost |-> new_cost,
                           index |-> Len(state[1]) + 1]}>>
    ELSE IF state[1][n].cost > new_cost
    THEN <<[state[1] EXCEPT ![n] = [node |-> successor, parent |-> index,
                                    cost |-> new_cost]],
           state[2] \cup {[estimated_cost |-> new_cost + h, cost |-> new_cost,
                           index |-> n]}>>
    ELSE state

\* The successors of the popped entry, from the i-th on; state is
\* <<parents, to_see>>.
RECURSIVE AstarExpand(_, _, _, _, _, _, _)
AstarExpand(sites, end_node, succ, i, cost, index, state) ==
    IF i > Len(succ) THEN state
    ELSE AstarExpand(sites, end_node, succ, i + 1, cost, index,
             AstarRelax(state, succ[i][1], cost + metric(succ[i][2]),
                        AstarHeuristic(sites, end_node, succ[i][1]), index,
                        ParentIndex(state[1], succ[i][1])))

RECURSIVE AstarLoop(_, _, _, _)
RECURSIVE AstarVisit(_, _, _, _, _, _)
\* The entry top popped from the queue, to_see being what is left of it.
AstarVisit(sites, end_node, parents, to_see, top, tie) ==
    IF parents[top.index].node = end_node
    THEN Some([steps |-> AstarPath(parents, top.index), cost |-> top.cost])
    ELSE IF top.cost > parents[top.index].cost
    THEN AstarLoop(sites, end_node, <<parents, to_see>>, tie)
    ELSE AstarLoop(sites, end_node,
             AstarExpand(sites, end_node, SitesNeighbours(sites, parents[top.index].node),
                         1, top.cost, top.index, <<parents, to_see>>),
             tie)

\* Without(to_see, top) is the queue after top is popped.
Without(to_see, top) == [top |-> top, rest |-> to_see \ {top}]

AstarPop(sites, end_node, parents, popped, tie) ==
    AstarVisit(sites, end_node, parents, popped.rest, popped.top, tie)

AstarLoop(sites, end_node, state, tie) ==
    IF state[2] = {} THEN None
    ELSE AstarPop(sites, end_node, state[1], Without(state[2], AstarTop(state[2], tie)), tie)

\* The result of the search with its cost as from_metric gives it.
AstarResult(found) ==
    IF found = None THEN None
    ELSE Some([steps |-> found[1].steps, cost |-> from_metric(found[1].cost)])

\* Sites::astar: the steps and from_metric of the cost the search returns.
SitesAstar(sites, start_node, end_node, tie) ==
    AstarResult(AstarLoop(sites, end_node,
                    << <<[node |-> start_node, parent |-> 0, cost |-> 0]>>,
                       {[estimated_cost |-> 0, cost |-> 0, index |-> 1]} >>, tie))

(***************************************************************************)
(* GridCoord (simulation.rs).  At(site) carries b = a and t = 0 so that    *)
(* every coordinate has the same fields.                                   *)
(***************************************************************************)
At(site) == [k |-> "At", a |-> site, b |-> site, t |-> F32Zero]

RawBetween(a, b, t) == [k |-> "Between", a |-> a, b |-> b, t |-> t]

\* A between that keeps t when it swaps the endpoints.
BetweenUnflipped(a, b, t) ==
    IF a = b THEN At(a)
    ELSE IF a < b THEN RawBetween(a, b, t)
    ELSE RawBetween(b, a, t)

\* GridCoord::between; its assertion 0 <= t <= 1 holds for every t of the model.
GridCoordBetween(a, b, t) ==
    IF a = b THEN At(a)
    ELSE IF a < b THEN RawBetween(a, b, t)
    ELSE RawBetween(b, a, F32Sub(F32One, t))

with_triple(a, b, t) ==
    IF t = F32Zero THEN At(a)
    ELSE IF t = F32One THEN At(b)
    ELSE LET start == Min2(a, b)
             end == Max2(a, b)
         IN GridCoordBetween(start, end, IF start = a THEN t ELSE F32Sub(F32One, t))

touches(c, site) ==
    IF c.k = "At" THEN c.a = site ELSE site = c.a \/ site = c.b

closest_endpoint(c) ==
    IF c.k = "At" THEN c.a
    ELSE IF F32Le(c.t, [m |-> 2^23, e |-> -24]) THEN c.a ELSE c.b

is_colinear(c, o) ==
    IF c.k = "At" /\ o.k = "At" THEN c.a = o.a
    ELSE IF c.k = "At" THEN c.a = o.a \/ c.a = o.b
    ELSE IF o.k = "At" THEN o.a = c.a \/ o.a = c.b
    ELSE c.a = o.a /\ c.b = o.b

\* GridCoord::as_site: the site of an At coordinate.
as_site(c) == IF c.k = "At" THEN Some(c.a) ELSE None

\* GridCoord::as_colinear: the common edge of two coordinates with the
\* parameter of each on it; two sites span the edge from the first to the
\* second.
as_colinear(c, o) ==
    IF c.k = "At" /\ o.k = "At"
    THEN Some([start |-> c.a, end |-> o.a, t1 |-> F32Zero, t2 |-> F32One])
    ELSE IF c.k = "At"
    THEN IF c.a = o.a
         THEN Some([start |-> o.a, end |-> o.b, t1 |-> F32Zero, t2 |-> o.t])
         ELSE IF c.a = o.b
         THEN Some([start |-> o.a, end |-> o.b, t1 |-> F32One, t2 |-> o.t])
         ELSE None
    ELSE IF o.k = "At"
    THEN IF o.a = c.a
         THEN Some([start |-> c.a, end |-> c.b, t1 |-> c.t, t2 |-> F32Zero])
         ELSE IF o.a = c.b
         THEN Some([start |-> c.a, end |-> c.b, t1 |-> c.t, t2 |-> F32One])
         ELSE None
    ELSE IF c.a = o.a /\ c.b = o.b
    THEN Some([start |-> c.a, end |-> c.b, t1 |-> c.t, t2 |-> o.t])
    ELSE None

(***************************************************************************)
(* Path: the waypoints stored in reverse, the next waypoint last.          *)
(***************************************************************************)
PathNew(steps) == Reverse(steps)

PathBeginning(path) == IF Len(path) = 0 THEN None ELSE Some(path[Len(path)])

PathEndpoint(path) == IF Len(path) = 0 THEN None ELSE Some(path[1])

PathAdvance(path) == IF Len(path) = 0 THEN path ELSE SubSeq(path, 1, Len(path) - 1)

(***************************************************************************)
(* Movement phases of tick_inner (tick.rs).  Each phase maps the parties   *)
(* collection, a function from PartyId to PartyData.                       *)
(***************************************************************************)
MovementTargetSite(site) == [k |-> "Site", id |-> site]

MovementTargetParty(party) == [k |-> "Party", id |-> party]

PartyMovementDefault == [target |-> None, path |-> <<>>, destination |-> None]

\* tick_party_ai without the case of the parties that do not move.
NavigateAll(parties) ==
    [id \in DOMAIN parties |->
        LET party_data == parties[id]
            target == party_data.movement.target
        IN [party_data EXCEPT !.movement.destination =
               IF target = None THEN None
               ELSE IF target[1].k = "Site" THEN Some(At(target[1].id))
               ELSE IF target[1].id \in DOMAIN parties
                    THEN Some(parties[target[1].id].position)
                    ELSE None]]

\* tick_party_ai keeping the destination of a party whose target party is
\* gone.
NavigateToLastSeen(parties) ==
    [id \in DOMAIN parties |->
        LET party_data == parties[id]
            target == party_data.movement.target
        IN IF party_data.movement_speed = F32Zero
           THEN [party_data EXCEPT !.movement.target = None,
                                   !.movement.destination = None]
           ELSE [party_data EXCEPT !.movement.destination =
                    IF target = None THEN None
                    ELSE IF target[1].k = "Site" THEN Some(At(target[1].id))
                    ELSE IF target[1].id \in DOMAIN parties
                         THEN Some(parties[target[1].id].position)
                         ELSE @]]

\* tick_party_ai and the application of its Navigate updates.
tick_party_ai(parties) ==
    [id \in DOMAIN parties |->
        LET party_data == parties[id]
            target == party_data.movement.target
        IN IF party_data.movement_speed = F32Zero
           THEN [party_data EXCEPT !.movement.target = None,
                                   !.movement.destination = None]
           ELSE [party_data EXCEPT !.movement.destination =
                    IF target = None THEN None
                    ELSE IF target[1].k = "Site" THEN Some(At(target[1].id))
                    ELSE IF target[1].id \in DOMAIN parties
                         THEN Some(parties[target[1].id].position)
                         ELSE None]]

\* The sites of a found route as path steps; the first is dropped when the
\* position touches both it and the second.
RouteSteps(steps, current_pos) ==
    IF Len(steps) >= 2 /\ touches(current_pos, steps[1]) /\ touches(current_pos, steps[2])
    THEN [i \in 1..(Len(steps) - 1) |-> At(steps[i + 1])]
    ELSE [i \in 1..Len(steps) |-> At(steps[i])]

\* The steps of the route astar found, none when it found nothing.
FoundSteps(found) == IF found = None THEN <<>> ELSE found[1].steps

\* A path that goes straight to the destination, whatever lies between.
StraightToDestination(sites, current_pos, destination, tie) == <<destination>>

\* The steps of a newly computed path (ChangePath::Set).
PathfindSteps(sites, current_pos, destination, tie) ==
    IF is_colinear(current_pos, destination) THEN <<destination>>
    ELSE Append(RouteSteps(FoundSteps(SitesAstar(sites, closest_endpoint(current_pos),
                                                 closest_endpoint(destination), tie)),
                           current_pos),
                destination)

\* pathfind and the application of its ChangePath updates.
pathfind(parties, sites, tie) ==
    [id \in DOMAIN parties |->
        LET party_data == parties[id]
            destination == IF party_data.movement.destination = None
                           THEN party_data.position
                           ELSE party_data.movement.destination[1]
        IN IF party_data.position = destination
           THEN [party_data EXCEPT !.movement.path = <<>>]
           ELSE IF Some(destination) = PathEndpoint(party_data.movement.path)
           THEN party_data
           ELSE [party_data EXCEPT !.movement.path =
                    PathNew(PathfindSteps(sites, party_data.position, destination, tie))]]

RECURSIVE AdvancePath(_, _)
AdvancePath(path, position) ==
    IF PathBeginning(path) = Some(position)
    THEN AdvancePath(PathAdvance(path), position)
    ELSE path

\* "Advance pathing": drop the waypoints the party is standing on.
advance_pathing(parties) ==
    [id \in DOMAIN parties |->
        [parties[id] EXCEPT !.movement.path = AdvancePath(@, parties[id].position)]]

\* 0.02f32: twice the base speed.
BaseSpeedDoubled == [m |-> 10737418, e |-> -29]

BASE_SPEED == [m |-> 10737418, e |-> -30]

\* (current_t + t_speed * t_direction).clamp(0., 1.)
ClampedStep(current_t, t_speed, forward) ==
    IF forward
    THEN IF t_speed = F32Inf THEN F32One
         ELSE LET sum == F32Add(current_t, t_speed)
              IN IF F32Lt(F32One, sum) THEN F32One ELSE sum
    ELSE IF t_speed = F32Inf \/ F32Le(current_t, t_speed) THEN F32Zero
         ELSE F32Sub(current_t, t_speed)

\* The next position of one party whose path head is destination, given
\* the ColinearPair cp of its position and that head.
NextCoord(sites, party_data, cp) ==
    LET forward == F32Le(cp.t1, cp.t2)
        distance == SitesDistance(sites, cp.start, cp.end)
        speed == F32Mul(party_data.movement_speed, BASE_SPEED)
        t_speed == IF F32Div(speed, distance) = F32Zero THEN F32Zero
                   ELSE F32Div(speed, distance)
        next_t == ClampedStep(cp.t1, t_speed, forward)
    IN with_triple(cp.start, cp.end, next_t)

\* The parties that make move_to_next_coord panic: as_colinear(..).unwrap()
\* on a position and a path head with no common edge.
MovePanics(parties) ==
    {id \in DOMAIN parties :
        /\ parties[id].movement.path # <<>>
        /\ as_colinear(parties[id].position,
                       PathBeginning(parties[id].movement.path)[1]) = None}

\* move_to_next_coord and the application of its Movement updates.
move_to_next_coord(parties, sites) ==
    [id \in DOMAIN parties |->
        LET party_data == parties[id]
            head == PathBeginning(party_data.movement.path)
        IN IF head = None THEN party_data
           ELSE [party_data EXCEPT !.position =
                    NextCoord(sites, party_data,
                              as_colinear(party_data.position, head[1])[1])]]

(***************************************************************************)
(* f64 quantities as exact rationals <<n, d>>, d > 0, in lowest terms.     *)
(***************************************************************************)
RECURSIVE GCD(_, _)
GCD(a, b) == IF b = 0 THEN a ELSE GCD(b, a % b)

Abs(n) == IF n < 0 THEN -n ELSE n

RNorm(n, d) ==
    LET g == GCD(Abs(n), d) IN IF n = 0 THEN <<0, 1>> ELSE <<n \div g, d \div g>>

R(n) == <<n, 1>>

RZero == <<0, 1>>

ROne == <<1, 1>>

RAdd(a, b) ==
    LET g == GCD(a[2], b[2])
    IN RNorm(a[1] * (b[2] \div g) + b[1] * (a[2] \div g), (a[2] \div g) * b[2])

RNeg(a) == <<-a[1], a[2]>>

RSub(a, b) == RAdd(a, RNeg(b))

RMul(a, b) ==
    IF a[1] = 0 \/ b[1] = 0 THEN RZero
    ELSE LET g1 == GCD(Abs(a[1]), b[2])
             g2 == GCD(Abs(b[1]), a[2])
         IN <<(a[1] \div g1) * (b[1] \div g2), (a[2] \div g2) * (b[2] \div g1)>>

\* a / b for b # 0.
RDiv(a, b) ==
    RMul(a, IF b[1] > 0 THEN <<b[2], b[1]>> ELSE <<-b[2], -b[1]>>)

RLt(a, b) == RSub(a, b)[1] < 0

RLe(a, b) == RSub(a, b)[1] <= 0

RMin(a, b) == IF RLe(a, b) THEN a ELSE b

RMax(a, b) == IF RLe(a, b) THEN b ELSE a

RClamp(x, lo, hi) == RMax(lo, RMin(x, hi))

\* f64::floor of a non-negative value, as an integer.
RFloor(a) == a[1] \div a[2]

\* f64::round (half away from zero) of a non-negative value, as an integer.
RRound(a) == (2 * a[1] + a[2]) \div (2 * a[2])

RECURSIVE RSum(_, _)
RSum(f, S) ==
    IF S = {} THEN RZero
    ELSE LET x == CHOOSE y \in S : TRUE IN RAdd(f[x], RSum(f, S \ {x}))

(***************************************************************************)
(* Date (date.rs).                                                         *)
(***************************************************************************)
TICKS_IN_HOUR == 3

HOURS_IN_DAY == 24

DAYS_IN_MONTH == 30

MONTHS_IN_YEAR == 12

TICKS_IN_DAY == TICKS_IN_HOUR * HOURS_IN_DAY

TICKS_IN_MONTH == TICKS_IN_DAY * DAYS_IN_MONTH

TICKS_IN_YEAR == TICKS_IN_MONTH * MONTHS_IN_YEAR

DateWithCalendar(day, month, year) ==
    (day - 1) * TICKS_IN_DAY + (month - 1) * TICKS_IN_MONTH + year * TICKS_IN_YEAR

DateAdvance(date) == date + 1

\* Date::is_new_day: the tick count is on a day boundary.
is_new_day(date) == date % TICKS_IN_DAY = 0

calendar_day(date) == ((date \div TICKS_IN_DAY) % DAYS_IN_MONTH) + 1

calendar_month(date) == ((date \div TICKS_IN_MONTH) % MONTHS_IN_YEAR) + 1

calendar_year(date) == (date \div TICKS_IN_YEAR) + 1

(***************************************************************************)
(* Slot maps are functions from keys to records; keys are handed out in    *)
(* increasing order and never reused, so that a key of a removed record    *)
(* resolves to nothing, and iteration is in key order.                     *)
(***************************************************************************)
Insert(f, k, v) == [x \in DOMAIN f \cup {k} |-> IF x = k THEN v ELSE f[x]]

Remove(f, k) == [x \in DOMAIN f \ {k} |-> f[x]]

\* The keys of a collection in iteration order.
RECURSIVE SortedKeys(_)
SortedKeys(S) ==
    IF S = {} THEN <<>>
    ELSE LET lo == CHOOSE x \in S : \A y \in S : x <= y
         IN <<lo>> \o SortedKeys(S \ {lo})

NullKey == 0

(***************************************************************************)
(* Tokens (tokens.rs).  A token type is named by its index in the catalog. *)
(***************************************************************************)
TokensEmpty(types) == [types |-> types, containers |-> <<>>, tokens |-> <<>>,
                       next_container |-> 1, next_token |-> 1]

add_container(tokens) ==
    [tokens EXCEPT !.containers = Insert(@, tokens.next_container, {}),
                   !.next_container = @ + 1]

\* The token ids of a container, in BTreeSet order.
all_tokens_in(tokens, container) ==
    IF container \in DOMAIN tokens.containers
    THEN SortedKeys(tokens.containers[container])
    ELSE <<>>

find_token_with_characteristics(tokens, container, typ) ==
    LET ids == all_tokens_in(tokens, container)
        hits == {i \in 1..Len(ids) : tokens.tokens[ids[i]].typ = typ}
    IN IF hits = {} THEN None
       ELSE Some(ids[CHOOSE i \in hits : \A j \in hits : i <= j])

\* add_token that always inserts a new token.
AddTokenAlways(tokens, container, typ, size) ==
    [tokens EXCEPT
        !.tokens = Insert(@, tokens.next_token,
                          [container |-> container, typ |-> typ, size |-> size]),
        !.containers[container] = @ \cup {tokens.next_token},
        !.next_token = @ + 1]

add_token(tokens, container, typ, size) ==
    LET found == find_token_with_characteristics(tokens, container, typ)
    IN IF found # None
       THEN [tokens EXCEPT !.tokens[found[1]].size = @ + size]
       ELSE [tokens EXCEPT
                !.tokens = Insert(@, tokens.next_token,
                                  [container |-> container, typ |-> typ, size |-> size]),
                !.containers[container] = @ \cup {tokens.next_token},
                !.next_token = @ + 1]

RECURSIVE SumSizes(_, _, _)
SumSizes(tokens, ids, category) ==
    IF ids = <<>> THEN 0
    ELSE LET tok == tokens.tokens[Head(ids)]
         IN (IF tokens.types[tok.typ].category = category THEN tok.size ELSE 0)
            + SumSizes(tokens, Tail(ids), category)

\* Tokens::count_size over the tokens of a container.
count_size(tokens, container, category) ==
    SumSizes(tokens, all_tokens_in(tokens, container), category)

TokensDespawn(tokens, id) ==
    IF id \in DOMAIN tokens.containers
    THEN [tokens EXCEPT !.containers = Remove(@, id),
                        !.tokens = [t \in DOMAIN tokens.tokens \ tokens.containers[id]
                                        |-> tokens.tokens[t]]]
    ELSE tokens

(***************************************************************************)
(* Markets and the location economy (tick.rs, simulation.rs).  Goods are   *)
(* named by their index in the catalog good_types; a token type's demand   *)
(* and supply and a site's RGO rates are sequences over the goods.         *)
(***************************************************************************)
MarketGoodDefault ==
    [stock |-> RZero, stock_delta |-> RZero, target_price |-> RZero, price |-> RZero,
     supply_base |-> RZero, supply_from_stock |-> RZero, supply_effective |-> RZero,
     demand_base |-> RZero, demand_effective |-> RZero, consumed |-> RZero,
     satisfaction |-> RZero]

MarketNew(good_types) ==
    [goods |-> [g \in DOMAIN good_types |->
                    [MarketGoodDefault EXCEPT !.price = good_types[g].price,
                                              !.target_price = good_types[g].price]],
     food_consumed |-> RZero, food_stockpile |-> RZero, income |-> RZero]

GOODS_POPULATION_SCALE == <<1, 100>>

STOCK_SUPPLY_BONUS == <<1, 20>>

PRICE_CONVERGENCE_SPEED == <<1, 10>>

lerp_f64(a, b, t) == RAdd(a, RMul(RSub(b, a), t))

\* The size of a token scaled by its category.
TokenScaledSize(tokens, tid) ==
    LET tok == tokens.tokens[tid]
    IN RMul(R(tok.size), IF tokens.types[tok.typ].category = "Building"
                          THEN ROne ELSE GOODS_POPULATION_SCALE)

RECURSIVE TokenAmounts(_, _, _, _)
\* Sum over the tokens ids of (field of the token type)[g] * scaled size.
TokenAmounts(tokens, ids, field, g) ==
    IF ids = <<>> THEN RZero
    ELSE RAdd(RMul(tokens.types[tokens.tokens[Head(ids)].typ][field][g],
                   TokenScaledSize(tokens, Head(ids))),
              TokenAmounts(tokens, Tail(ids), field, g))

RECURSIVE TokenValues(_, _, _, _)
\* Sum over the Building tokens and the goods of amount * (amount * price).
TokenValues(tokens, ids, field, market) ==
    IF ids = <<>> THEN RZero
    ELSE LET typ == tokens.types[tokens.tokens[Head(ids)].typ]
             size == TokenScaledSize(tokens, Head(ids))
             value == [g \in DOMAIN market.goods |->
                          LET amount == RMul(typ[field][g], size)
                              price == RMul(amount, market.goods[g].price)
                          IN RMul(amount, price)]
         IN RAdd(IF typ.category = "Building" THEN RSum(value, DOMAIN value) ELSE RZero,
                 TokenValues(tokens, Tail(ids), field, market))

\* Tokens that yield no work points.
RgoWorkPointsNone(tokens, ids) == RZero

RECURSIVE RgoWorkPoints(_, _)
RgoWorkPoints(tokens, ids) ==
    IF ids = <<>> THEN RZero
    ELSE RAdd(RMul(tokens.types[tokens.tokens[Head(ids)].typ].rgo_points,
                   TokenScaledSize(tokens, Head(ids))),
              RgoWorkPoints(tokens, Tail(ids)))

\* A good of the new market: old is the good in the market of the day
\* before, supply_base and demand_base what the tokens and the RGO give.
NewGood(old, good_type, supply_base, demand_base, prosperity, population) ==
    LET fresh == MarketGoodDefault
        \* supply_from_stock is still zero when it is added here
        supply_effective ==
            RAdd(RAdd(fresh.supply_effective, supply_base), fresh.supply_from_stock)
        demand_effective == RAdd(fresh.demand_effective, demand_base)
        from_stock == RMul(old.stock, STOCK_SUPPLY_BONUS)
        numerator == RSub(demand_base, supply_effective)
        denominator == RMax(RMax(supply_effective, demand_effective), <<1, 10>>)
        sd_modifier == RClamp(RDiv(numerator, denominator), <<-3, 4>>, <<3, 4>>)
        prosperity_modifier == RMax(prosperity, RZero)
        target_price ==
            RMul(RMul(good_type.price, RAdd(ROne, sd_modifier)),
                 RAdd(ROne, prosperity_modifier))
        available == RAdd(old.stock, supply_base)
        max_stock == RMul(RMul(R(population), GOODS_POPULATION_SCALE), R(10))
    IN [stock |-> RClamp(RSub(available, RMin(available, demand_base)), RZero, max_stock),
        stock_delta |->
            RSub(RClamp(RSub(available, RMin(available, demand_base)), RZero, max_stock),
                 old.stock),
        target_price |-> target_price,
        price |-> lerp_f64(old.price, target_price, PRICE_CONVERGENCE_SPEED),
        supply_base |-> supply_base,
        supply_from_stock |-> RAdd(fresh.supply_from_stock, from_stock),
        supply_effective |-> supply_effective,
        demand_base |-> demand_base, demand_effective |-> demand_effective,
        consumed |-> RMin(available, demand_base),
        satisfaction |-> IF RLe(demand_base, RZero) THEN ROne
                         ELSE RMin(RDiv(RMin(available, demand_base), demand_base), ROne)]

\* The new market from its goods: the food totals and the income.
MarketTotals(goods, good_types, income) ==
    [goods |-> goods,
     food_consumed |-> RSum([g \in DOMAIN goods |->
                               RMul(goods[g].consumed, good_types[g].food_rate)],
                            DOMAIN goods),
     food_stockpile |-> RSum([g \in DOMAIN goods |->
                                RMul(goods[g].stock, good_types[g].food_rate)],
                             DOMAIN goods),
     income |-> income]

\* What the RGO of the site produces of each good with the workers it has.
RgoProduced(rgo, num_workers) ==
    [g \in DOMAIN rgo.rates |-> RMul(rgo.rates[g], R(num_workers))]

\* The new market, produced being the RGO production of each good.
MarketOf(location, population, ids, tokens, good_types, produced) ==
    MarketTotals(
        [g \in DOMAIN good_types |->
            NewGood(location.market.goods[g], good_types[g],
                    RAdd(TokenAmounts(tokens, ids, "supply", g), produced[g]),
                    TokenAmounts(tokens, ids, "demand", g),
                    location.prosperity, population)],
        good_types,
        RAdd(RSub(TokenValues(tokens, ids, "supply", location.market),
                  TokenValues(tokens, ids, "demand", location.market)),
             RSum([g \in DOMAIN good_types |->
                      RMul(location.market.goods[g].price, produced[g])],
                  DOMAIN good_types)))

\* The market of a location after a day's economic tick.
TickMarket(location, population, ids, tokens, good_types, rgo) ==
    MarketOf(location, population, ids, tokens, good_types,
             RgoProduced(rgo, Min2(RFloor(RgoWorkPoints(tokens, ids)), rgo.capacity)))

\* The location with its population counted and, on a new day, its market.
LocationEconomy(location, ids, population, tokens, good_types, sites, tick_market) ==
    IF ~tick_market
    THEN [location EXCEPT !.population = population]
    ELSE [location EXCEPT
             !.population = population,
             !.market = TickMarket(location, population, ids, tokens, good_types,
                                   sites.entries[location.site].rgo)]

CountedEconomy(location, ids, tokens, good_types, sites, tick_market) ==
    LocationEconomy(location, ids, SumSizes(tokens, ids, "Pop"), tokens, good_types,
                    sites, tick_market)

\* tick_location_economy rebuilding the markets on every tick.
EconomyEveryTick(locations, tokens, good_types, sites, tick_market) ==
    [id \in DOMAIN locations |->
        CountedEconomy(locations[id], all_tokens_in(tokens, locations[id].tokens),
                       tokens, good_types, sites, TRUE)]

tick_location_economy(locations, tokens, good_types, sites, tick_market) ==
    [id \in DOMAIN locations |->
        CountedEconomy(locations[id], all_tokens_in(tokens, locations[id].tokens),
                       tokens, good_types, sites, tick_market)]

(***************************************************************************)
(* Influences (tick.rs tick_influences, sites.rs propagate_influences).    *)
(* A site's influence list is a sequence of [typ, amount] sorted by typ;   *)
(* a typ is [kind, source], source being the party of the location.        *)
(***************************************************************************)
\* 0.3f32, the decay speed of InfluenceKind::Market.
MarketDecaySpeed == [m |-> 10066330, e |-> -25]

\* A decay by the length of the edge crossed.
DecayByLength(kind, x, distance) == Max2(x - F32RoundToInt(distance), 0)

decay(kind, x, distance) ==
    LET xf == F32FromInt(x)
        loss == F32Mul(xf, MarketDecaySpeed)
    IN Max2(F32RoundToInt(F32Sub(xf, loss)), 0)

\* The derived order of InfluenceType: by kind, then by source.
InfluenceTypeLess(a, b) == a.source < b.source

RECURSIVE SortTypes(_)
SortTypes(S) ==
    IF S = {} THEN <<>>
    ELSE LET lo == CHOOSE x \in S : \A y \in S \ {x} : InfluenceTypeLess(x, y)
         IN <<lo>> \o SortTypes(S \ {lo})

\* The sum of the amounts of the contributions of one typ.
RECURSIVE SumOfTyp(_, _)
SumOfTyp(contributions, typ) ==
    IF contributions = <<>> THEN 0
    ELSE (IF Head(contributions).typ = typ THEN Head(contributions).amount ELSE 0)
         + SumOfTyp(Tail(contributions), typ)

\* The contributions combined by adding up the amounts of each typ.
CombineBySum(contributions) ==
    LET types == SortTypes({contributions[i].typ : i \in DOMAIN contributions})
    IN [i \in DOMAIN types |->
           [typ |-> types[i], amount |-> SumOfTyp(contributions, types[i])]]

\* The contributions combined: one entry per typ, the greatest amount, sorted.
Combine(contributions) ==
    LET types == SortTypes({contributions[i].typ : i \in DOMAIN contributions})
        Best(typ) ==
            LET as == {contributions[i].amount :
                          i \in {j \in DOMAIN contributions : contributions[j].typ = typ}}
            IN CHOOSE a \in as : \A b \in as : b <= a
    IN [i \in DOMAIN types |-> [typ |-> types[i], amount |-> Best(types[i])]]

RECURSIVE Concat(_)
Concat(ss) == IF ss = <<>> THEN <<>> ELSE Head(ss) \o Concat(Tail(ss))

SelectSeqPositive(cs) == SelectSeq(cs, LAMBDA c : c.amount > 0)

\* The new influence list of one site, from the lists as they are in sites.
SiteUpdate(sites, sources, site_id) ==
    LET from_source == IF site_id \in DOMAIN sources THEN sources[site_id] ELSE <<>>
        ns == sites.entries[site_id].neighbours
        FromNeighbour(i) ==
            LET infl == sites.entries[ns[i][1]].influences
            IN SelectSeqPositive(
                   [j \in DOMAIN infl |->
                       [typ |-> infl[j].typ,
                        amount |-> decay(infl[j].typ.kind, infl[j].amount, ns[i][2])]])
    IN Combine(from_source \o Concat([i \in DOMAIN ns |-> FromNeighbour(i)]))

\* The sites from site_id on updated one after the other, each from the
\* lists the earlier ones have already replaced.
RECURSIVE UpdateInPlace(_, _, _)
UpdateInPlace(sites, sources, site_id) ==
    IF site_id > Len(sites.entries) THEN sites
    ELSE UpdateInPlace([sites EXCEPT !.entries[site_id].influences =
                           SiteUpdate(sites, sources, site_id)],
                       sources, site_id + 1)

\* propagate_influences applying each site's update before computing the
\* next.
PropagateInPlace(sites, sources) == UpdateInPlace(sites, sources, 1)

propagate_influences(sites, sources) ==
    LET Update(site_id) ==
            LET from_source == IF site_id \in DOMAIN sources THEN sources[site_id] ELSE <<>>
                ns == sites.entries[site_id].neighbours
                FromNeighbour(i) ==
                    LET infl == sites.entries[ns[i][1]].influences
                    IN SelectSeqPositive(
                           [j \in DOMAIN infl |->
                               [typ |-> infl[j].typ,
                                amount |-> decay(infl[j].typ.kind, infl[j].amount, ns[i][2])]])
            IN Combine(from_source \o Concat([i \in DOMAIN ns |-> FromNeighbour(i)]))
    IN [sites EXCEPT !.entries =
           [id \in DOMAIN sites.entries |->
               [sites.entries[id] EXCEPT !.influences = Update(id)]]]

\* The influence list registered by one location.
LocationInfluences(location) ==
    SelectSeqPositive(
        [i \in DOMAIN location.influence_sources |->
            [typ |-> [kind |-> location.influence_sources[i].kind,
                      source |-> location.party],
             amount |-> RRound(RMul(location.influence_sources[i].population_modifier,
                                    R(location.population)))]])

\* assert!(prev.is_none()): two locations registering sources at one site.
InfluencePanics(locations) ==
    \E a, b \in DOMAIN locations : a # b /\ locations[a].site = locations[b].site

tick_influences(sites, locations) ==
    LET at == {locations[l].site : l \in DOMAIN locations}
        sources == [site \in at |->
                       LocationInfluences(
                           locations[CHOOSE l \in DOMAIN locations : locations[l].site = site])]
    IN propagate_influences(sites, sources)

\* Influences::top_source: the source of the greatest amount of the kind.
top_source(influences, kind) ==
    LET idx == {i \in DOMAIN influences : influences[i].typ.kind = kind}
    IN IF idx = {} THEN None
       ELSE Some(influences[CHOOSE i \in idx :
                     \A j \in idx : influences[j].amount < influences[i].amount
                                    \/ (influences[j].amount = influences[i].amount /\ i <= j)
                 ].typ.source)

(***************************************************************************)
(* Pressures (tick.rs tick_pressures, handle_pressure_events).  The only   *)
(* pressure type is Farmer; innate_growth is the list of its growths.      *)
(***************************************************************************)
FarmerThreshold == R(20)

FarmerSubtract == R(20)

RECURSIVE GrowPressure(_, _)
GrowPressure(current, growth) ==
    IF growth = <<>> THEN current
    ELSE GrowPressure(RMax(RAdd(current, Head(growth)), RZero), Tail(growth))

\* The pressure agents after their daily growth.
GrownPressures(agents) ==
    [id \in DOMAIN agents |->
        [agents[id] EXCEPT !.current = GrowPressure(@, agents[id].innate_growth)]]

\* The pressure agents past the threshold, in key order.
Triggered(agents) ==
    SortedKeys({id \in DOMAIN agents : RLe(FarmerThreshold, GrownPressures(agents)[id].current)})

tick_pressures(agents, new_day) ==
    IF ~new_day THEN [agents |-> agents, events |-> <<>>]
    ELSE LET grown == GrownPressures(agents)
             hit == Triggered(agents)
         IN [agents |-> [id \in DOMAIN grown |->
                            IF RLe(FarmerThreshold, grown[id].current)
                            THEN [grown[id] EXCEPT
                                     !.current = RMax(RSub(@, FarmerSubtract), RZero)]
                            ELSE grown[id]],
             events |-> [i \in DOMAIN hit |->
                            [typ |-> "SpawnFarmer", target |-> grown[hit[i]].entity]]]

(***************************************************************************)
(* Entity creation (tick.rs TickCommands, process_entity_create_commands). *)
(* A site tag is the index of the site, a token tag the index of the token *)
(* type, an agent tag a number (0 the empty tag); an index outside the     *)
(* collection is an unknown tag.                                           *)
(***************************************************************************)
EmptyTag == 0

PersonSpeed == [m |-> 10485760, e |-> -22]

FarmerSpeed == [m |-> 8388608, e |-> -22]

CreateEntityDefault ==
    [kind_name |-> "", agent |-> None, location |-> None, party |-> None,
     pressure_agent |-> None, behavior |-> None]

create_location(site, faction, settlement_kind, prosperity, toks) ==
    [CreateEntityDefault EXCEPT
        !.kind_name = "Location",
        !.agent = Some([tag |-> EmptyTag, flags |-> {}, political_parent |-> Some(faction),
                        cash |-> RZero]),
        !.location = Some([site |-> site, prosperity |-> prosperity,
                           is_town |-> settlement_kind = "town", tokens |-> toks]),
        !.party = Some([site |-> site, movement_speed |-> F32Zero, layer |-> 0]),
        !.pressure_agent =
            Some([pressures |-> IF settlement_kind = "village" THEN <<ROne>> ELSE <<>>])]

create_person(site, faction) ==
    [CreateEntityDefault EXCEPT
        !.kind_name = "Person",
        !.agent = Some([tag |-> EmptyTag, flags |-> {}, political_parent |-> Some(faction),
                        cash |-> RZero]),
        !.party = Some([site |-> site, movement_speed |-> PersonSpeed, layer |-> 1])]

create_faction(tag) ==
    [CreateEntityDefault EXCEPT
        !.kind_name = "Faction",
        !.agent = Some([tag |-> tag, flags |-> {"IsFaction"}, political_parent |-> None,
                        cash |-> RZero])]

EntityDataDefault(kind_name) ==
    [kind_name |-> kind_name, agent |-> None, party |-> None, location |-> None,
     pressure_agent |-> None, behavior |-> None]

GoodStockNew(good_types) == [g \in DOMAIN good_types |-> RZero]

TaskDefault ==
    [target |-> NullKey, give_away_to_target |-> FALSE, trade_with_target |-> FALSE,
     despawn_on_complete |-> FALSE, continue_after_arrival |-> FALSE,
     on_complete_state |-> 0]

BehaviorDefault(entity, goal) ==
    [entity |-> entity, goal |-> goal, task |-> None, memory |-> [state |-> 0],
     request_despawn |-> FALSE]

RECURSIVE AddTokens(_, _, _)
AddTokens(tokens, container, creates) ==
    IF creates = <<>> THEN tokens
    ELSE AddTokens(IF Head(creates).tag \in DOMAIN tokens.types
                   THEN add_token(tokens, container, Head(creates).tag, Head(creates).size)
                   ELSE tokens,
                   container, Tail(creates))

\* The site a location command would bind, when the command creates a location.
BoundSite(sim, command) ==
    IF command.location # None /\ command.party # None
       /\ SitesLookup(sim.sites, command.location[1].site) # None
       /\ SitesLookup(sim.sites, command.party[1].site) # None
    THEN SitesLookup(sim.sites, command.location[1].site)
    ELSE None

\* bind_location without its assertion.
BindUnasserted(sim, command) == FALSE

\* bind_location: assert!(site.location.is_none()).
CreatePanics(sim, command) ==
    /\ BoundSite(sim, command) # None
    /\ sim.sites.entries[BoundSite(sim, command)[1]].location # None

\* One CreateEntity command applied.
CreateOne(sim, command) ==
    LET entity == sim.next.entity
        has_agent == command.agent # None
        agent_id == sim.next.agent
        agents1 ==
            IF ~has_agent THEN sim.agents
            ELSE LET args == command.agent[1]
                     tags1 == IF args.tag # EmptyTag
                              THEN Insert(sim.agents.tags, args.tag, agent_id)
                              ELSE sim.agents.tags
                     known == args.political_parent # None
                              /\ args.political_parent[1] \in DOMAIN tags1
                 IN [entries |-> Insert(sim.agents.entries, agent_id,
                                        [entity |-> entity, flags |-> args.flags,
                                         cash |-> args.cash]),
                     tags |-> tags1,
                     political_hierarchy |->
                         IF known
                         THEN Insert(sim.agents.political_hierarchy, agent_id,
                                     tags1[args.political_parent[1]])
                         ELSE sim.agents.political_hierarchy]
        party_site == IF command.party = None THEN None
                      ELSE SitesLookup(sim.sites, command.party[1].site)
        has_party == party_site # None
        party_id == sim.next.party
        site == BoundSite(sim, command)
        has_location == site # None
        location_id == sim.next.location
        container == sim.tokens.next_container
        tokens1 == IF has_location
                   THEN AddTokens(add_container(sim.tokens), container,
                                  command.location[1].tokens)
                   ELSE sim.tokens
        parties1 ==
            IF ~has_party THEN sim.parties
            ELSE Insert(sim.parties, party_id,
                        [entity |-> entity,
                         location |-> IF has_location THEN Some(location_id) ELSE None,
                         position |-> At(party_site[1]),
                         layer |-> command.party[1].layer,
                         movement_speed |-> command.party[1].movement_speed,
                         movement |-> PartyMovementDefault,
                         good_stock |-> GoodStockNew(sim.good_types)])
        locations1 ==
            IF ~has_location THEN sim.locations
            ELSE Insert(sim.locations, location_id,
                        [entity |-> entity, party |-> party_id, site |-> site[1],
                         tokens |-> container, population |-> 0,
                         prosperity |-> command.location[1].prosperity,
                         market |-> MarketNew(sim.good_types),
                         influence_sources |->
                             IF command.location[1].is_town
                             THEN <<[kind |-> "Market", population_modifier |-> ROne]>>
                             ELSE <<>>])
        sites1 == IF has_location
                  THEN [sim.sites EXCEPT !.entries[site[1]].location = Some(location_id)]
                  ELSE sim.sites
        has_pressure == command.pressure_agent # None
        pressure_id == sim.next.pressurable
        pressurables1 ==
            IF ~has_pressure THEN sim.pressurables
            ELSE Insert(sim.pressurables, pressure_id,
                        [entity |-> entity, current |-> RZero,
                         innate_growth |-> command.pressure_agent[1].pressures])
        has_behavior == command.behavior # None
        behavior_id == sim.next.behavior
        beahviors1 ==
            IF ~has_behavior THEN sim.beahviors
            ELSE Insert(sim.beahviors, behavior_id,
                        BehaviorDefault(entity,
                            IF command.behavior[1].base # None
                            THEN [k |-> "LocalTrade", base |-> command.behavior[1].base[1]]
                            ELSE [k |-> "Idle", base |-> NullKey]))
        Opt(has, id) == IF has THEN Some(id) ELSE None
    IN [sim EXCEPT
           !.entities = Insert(@, entity,
               [kind_name |-> command.kind_name,
                agent |-> Opt(has_agent, agent_id),
                party |-> Opt(has_party, party_id),
                location |-> Opt(has_location, location_id),
                pressure_agent |-> Opt(has_pressure, pressure_id),
                behavior |-> Opt(has_behavior, behavior_id)]),
           !.agents = agents1,
           !.parties = parties1,
           !.tokens = tokens1,
           !.locations = locations1,
           !.sites = sites1,
           !.pressurables = pressurables1,
           !.beahviors = beahviors1,
           !.next = [entity |-> entity + 1,
                     agent |-> IF has_agent THEN agent_id + 1 ELSE agent_id,
                     party |-> IF has_party THEN party_id + 1 ELSE party_id,
                     location |-> IF has_location THEN location_id + 1 ELSE location_id,
                     pressurable |-> IF has_pressure THEN pressure_id + 1 ELSE pressure_id,
                     behavior |-> IF has_behavior THEN behavior_id + 1 ELSE behavior_id]]

RECURSIVE process_entity_create_commands(_, _)
\* The commands applied in order; [sim, panicked].
process_entity_create_commands(sim, commands) ==
    IF commands = <<>> THEN [sim |-> sim, panicked |-> FALSE]
    ELSE IF CreatePanics(sim, Head(commands)) THEN [sim |-> sim, panicked |-> TRUE]
    ELSE process_entity_create_commands(CreateOne(sim, Head(commands)), Tail(commands))

\* The political parent's tag, by reverse lookup.
PoliticalParentTag(sim, agent) ==
    IF agent = None \/ agent[1] \notin DOMAIN sim.agents.political_hierarchy THEN None
    ELSE LET parent == sim.agents.political_hierarchy[agent[1]]
             tags == {t \in DOMAIN sim.agents.tags : sim.agents.tags[t] = parent}
         IN IF tags = {} THEN None ELSE Some(CHOOSE t \in tags : \A u \in tags : t <= u)

\* target_entity.location.unwrap(), target_entity.party.unwrap().
PressureEventPanics(sim, events) ==
    \E i \in DOMAIN events :
        \/ sim.entities[events[i].target].location = None
        \/ sim.entities[events[i].target].party = None

handle_pressure_events(sim, events) ==
    [i \in DOMAIN events |->
        LET target_entity == sim.entities[events[i].target]
            target_location == sim.locations[target_entity.location[1]]
        IN [CreateEntityDefault EXCEPT
               !.agent = Some([tag |-> EmptyTag, flags |-> {},
                               political_parent |-> PoliticalParentTag(sim, target_entity.agent),
                               cash |-> R(1000)]),
               !.party = Some([site |-> target_location.site,
                               movement_speed |-> FarmerSpeed, layer |-> 1]),
               !.behavior = Some([base |-> Some(target_entity.party[1])])]]

(***************************************************************************)
(* Behaviors (tick.rs mod tick_behaviors).                                 *)
(***************************************************************************)
STATE_BEGIN == 0

STATE_OUTGOING == 1

STATE_RETURING == 2

\* A validation that never finds a task over.
NeverOver(sim, task, my_party) == [is_over |-> FALSE, at_target |-> None]

validate_task(sim, task, my_party) ==
    LET arrived == /\ task.target \in DOMAIN sim.parties
                   /\ ~task.continue_after_arrival
                   /\ my_party.position = sim.parties[task.target].position
    IN [is_over |-> task.target = NullKey \/ arrived,
        at_target |-> IF arrived THEN Some(task.target) ELSE None]

\* A decision that never looks past the base.
DecideHome(sim, goal, memory) ==
    IF goal.k = "Idle" THEN None
    ELSE Some([TaskDefault EXCEPT !.target = goal.base, !.trade_with_target = TRUE,
                                  !.on_complete_state = STATE_OUTGOING])

decide_task(sim, goal, memory) ==
    IF goal.k = "Idle" THEN None
    ELSE IF goal.base \notin DOMAIN sim.parties THEN None
    ELSE IF memory.state = STATE_BEGIN \/ memory.state = STATE_RETURING
    THEN LET is_returning == memory.state = STATE_RETURING
         IN Some([TaskDefault EXCEPT
                     !.target = goal.base,
                     !.give_away_to_target = is_returning,
                     !.trade_with_target = ~is_returning,
                     !.despawn_on_complete = is_returning,
                     !.on_complete_state =
                         IF ~is_returning THEN STATE_OUTGOING ELSE STATE_RETURING])
    ELSE LET site == as_site(sim.parties[goal.base].position)
         IN IF site = None THEN None
            ELSE LET target == top_source(sim.sites.entries[site[1]].influences, "Market")
                 IN IF target = None THEN None
                    ELSE Some([TaskDefault EXCEPT
                                  !.target = target[1],
                                  !.on_complete_state = STATE_RETURING,
                                  !.trade_with_target = TRUE])

\* A completion that requests the despawn whatever the task says.
CompleteAndDespawn(sim, task, validation, behavior) ==
    [behavior |-> [behavior EXCEPT !.memory.state = task.on_complete_state,
                                   !.request_despawn = TRUE],
     trade_events |-> <<>>, transfers |-> <<>>]

\* on_task_complete: the behavior afterwards and the events pushed.
on_task_complete(sim, task, validation, behavior) ==
    LET entity == sim.entities[behavior.entity]
        trades == task.trade_with_target /\ validation.at_target # None
                  /\ sim.parties[validation.at_target[1]].location # None
        gives == task.give_away_to_target /\ validation.at_target # None
    IN [behavior |-> [behavior EXCEPT
                         !.memory.state = task.on_complete_state,
                         !.request_despawn = @ \/ task.despawn_on_complete],
        trade_events |->
            IF trades
            THEN <<[party |-> entity.party[1], agent |-> entity.agent[1],
                    location |-> sim.parties[validation.at_target[1]].location[1]]>>
            ELSE <<>>,
        transfers |->
            IF gives
            THEN <<[source |-> entity.party[1], target |-> validation.at_target[1]]>>
            ELSE <<>>]

\* The task decided right after one was completed, with the memory updated.
Redecide(sim, done) ==
    [done EXCEPT !.behavior.task =
        decide_task(sim, done.behavior.goal, done.behavior.memory)]

\* A behavior holding a task, once the task was validated.
Validated(sim, behavior, validation) ==
    IF validation.is_over
    THEN Redecide(sim, on_task_complete(sim, behavior.task[1], validation, behavior))
    ELSE [behavior |-> behavior, trade_events |-> <<>>, transfers |-> <<>>]

\* One behavior's step of the first loop of tick_behaviors.
BehaviorStep(sim, behavior) ==
    IF behavior.task = None
    THEN [behavior |-> [behavior EXCEPT
                           !.task = decide_task(sim, behavior.goal, behavior.memory)],
          trade_events |-> <<>>, transfers |-> <<>>]
    ELSE Validated(sim, behavior,
                   validate_task(sim, behavior.task[1],
                                 sim.parties[sim.entities[behavior.entity].party[1]]))

\* sim.entities[behavior.entity], party.unwrap(), agent.unwrap().
BehaviorPanics(sim) ==
    \E b \in DOMAIN sim.beahviors :
        \/ sim.beahviors[b].entity \notin DOMAIN sim.entities
        \/ sim.entities[sim.beahviors[b].entity].party = None
        \/ sim.entities[sim.beahviors[b].entity].agent = None

\* The second loop left out: the behaviors are stored, no target is set.
EffectsWithoutTargets(sim, keys, step) ==
    [sim |-> [sim EXCEPT !.beahviors = [b \in DOMAIN step |-> step[b].behavior]],
     transfers |-> Concat([i \in DOMAIN keys |-> step[keys[i]].transfers]),
     trade_events |-> Concat([i \in DOMAIN keys |-> step[keys[i]].trade_events])]

\* The second loop of tick_behaviors and the effects collected, step being
\* the outcome of the first loop for each behavior.
BehaviorEffects(sim, keys, step) ==
    LET owner == [b \in DOMAIN step |-> sim.entities[step[b].behavior.entity].party[1]]
        Target(b) == IF step[b].behavior.task # None
                        /\ step[b].behavior.task[1].target # NullKey
                     THEN Some(MovementTargetParty(step[b].behavior.task[1].target))
                     ELSE None
    IN [sim |-> [sim EXCEPT
                    !.beahviors = [b \in DOMAIN step |-> step[b].behavior],
                    !.parties = [pid \in DOMAIN sim.parties |->
                        IF \E b \in DOMAIN step : owner[b] = pid
                        THEN [sim.parties[pid] EXCEPT !.movement.target =
                                 Target(CHOOSE b \in DOMAIN step : owner[b] = pid)]
                        ELSE sim.parties[pid]]],
        transfers |-> Concat([i \in DOMAIN keys |-> step[keys[i]].transfers]),
        trade_events |-> Concat([i \in DOMAIN keys |-> step[keys[i]].trade_events])]

\* tick_behaviors: the behaviors, the parties' targets, and the effects.
tick_behaviors(sim) ==
    BehaviorEffects(sim, SortedKeys(DOMAIN sim.beahviors),
                    [b \in DOMAIN sim.beahviors |-> BehaviorStep(sim, sim.beahviors[b])])

(***************************************************************************)
(* Transfers and trades (tick.rs mod transfer, mod trade).                 *)
(***************************************************************************)
\* transfer::resolve for one event without clearing the source.
TransferKeeping(sim, event) ==
    LET bundle == sim.parties[event.source].good_stock
        target_data == sim.parties[event.target]
    IN IF target_data.location # None
       THEN [sim EXCEPT !.locations[target_data.location[1]].market.goods =
                [g \in DOMAIN @ |->
                    [@[g] EXCEPT !.stock = RAdd(@, bundle[g]),
                                 !.stock_delta = RAdd(@, bundle[g])]]]
       ELSE [sim EXCEPT !.parties[event.target].good_stock =
                [g \in DOMAIN @ |-> RAdd(@[g], bundle[g])]]

TransferOne(sim, event) ==
    LET bundle == sim.parties[event.source].good_stock
        cleared == [sim EXCEPT !.parties[event.source].good_stock =
                                   [g \in DOMAIN bundle |-> RZero]]
        target_data == cleared.parties[event.target]
    IN IF target_data.location # None
       THEN [cleared EXCEPT !.locations[target_data.location[1]].market.goods =
                [g \in DOMAIN @ |->
                    [@[g] EXCEPT !.stock = RAdd(@, bundle[g]),
                                 !.stock_delta = RAdd(@, bundle[g])]]]
       ELSE [cleared EXCEPT !.parties[event.target].good_stock =
                [g \in DOMAIN @ |-> RAdd(@[g], bundle[g])]]

RECURSIVE TransferResolve(_, _)
TransferResolve(sim, events) ==
    IF events = <<>> THEN sim
    ELSE TransferResolve(TransferOne(sim, Head(events)), Tail(events))

\* The sales of resolve_trade, good by good: [cash, quantity, goods].
RECURSIVE PerformSales(_, _, _, _)
PerformSales(cash, quantity, goods, g) ==
    IF g > Len(goods) THEN [cash |-> cash, quantity |-> quantity, goods |-> goods]
    ELSE PerformSales(
             RAdd(cash, RMul(goods[g].price, quantity[g])),
             [quantity EXCEPT ![g] = RSub(@, quantity[g])],
             [goods EXCEPT ![g].stock = RAdd(@, quantity[g]),
                           ![g].stock_delta = RAdd(@, quantity[g])],
             g + 1)

\* A weight that does not look at the stock.
BuyWeightAnyStock(good) == RDiv(ROne, good.price)

\* The weight of a good the trader can buy: 1 / price when it is in stock.
BuyWeight(good) ==
    IF RLe(good.stock, RZero) THEN RZero ELSE RDiv(ROne, good.price)

\* A purchase of the whole stock, whatever the cash allocated.
BoughtWholeStock(cash, good, weight, total_weight) == good.stock

\* What the trader buys of a good: what the cash allocated to it affords,
\* at most the stock.
Bought(cash, good, weight, total_weight) ==
    IF good.price = RZero THEN good.stock
    ELSE RMin(RDiv(RMin(RMul(cash, RDiv(weight, total_weight)), cash), good.price),
              good.stock)

\* The trader t = [cash, quantity, goods] after buying bought of good g.
BuyOne(t, g, bought) ==
    [cash |-> RMax(RSub(t.cash, RMul(bought, t.goods[g].price)), RZero),
     quantity |-> [t.quantity EXCEPT ![g] = RAdd(@, bought)],
     goods |-> [t.goods EXCEPT ![g].stock = RSub(@, bought),
                               ![g].stock_delta = RSub(@, bought)]]

\* The buys of resolve_trade, good by good.
RECURSIVE PerformBuys(_, _, _, _)
PerformBuys(t, weights, total_weight, g) ==
    IF g > Len(t.goods) THEN t
    ELSE PerformBuys(BuyOne(t, g, Bought(t.cash, t.goods[g], weights[g], total_weight)),
                     weights, total_weight, g + 1)

\* The buys, skipped when no good has a weight.
BuyWeighted(sold, weights, total_weight) ==
    IF total_weight # RZero THEN PerformBuys(sold, weights, total_weight, 1) ELSE sold

BuyWith(sold, weights) == BuyWeighted(sold, weights, RSum(weights, DOMAIN weights))

BuyAfterSales(sold) ==
    BuyWith(sold, [g \in DOMAIN sold.goods |-> BuyWeight(sold.goods[g])])

\* resolve_trade on a trader [cash, quantity] and the goods of a market.
resolve_trade(trader, goods) ==
    BuyAfterSales(PerformSales(trader.cash, trader.quantity, goods, 1))

collect_traders(sim, events) ==
    [i \in DOMAIN events |->
        [cash |-> sim.agents.entries[events[i].agent].cash,
         quantity |-> sim.parties[events[i].party].good_stock,
         event |-> events[i]]]

\* The i-th trader and its market after its trade gave out.
TraderDone(done, i, out) ==
    [locations |-> [done.locations EXCEPT
                       ![done.traders[i].event.location].market.goods = out.goods],
     traders |-> [done.traders EXCEPT ![i].cash = out.cash, ![i].quantity = out.quantity]]

\* The markets after the traders traded in turn, and the traders afterwards;
\* done is [locations, traders].
RECURSIVE ProcessTraders(_, _)
ProcessTraders(done, i) ==
    IF i > Len(done.traders) THEN done
    ELSE ProcessTraders(
             TraderDone(done, i,
                 resolve_trade(done.traders[i],
                     done.locations[done.traders[i].event.location].market.goods)),
             i + 1)

RECURSIVE WriteBack(_, _)
WriteBack(sim, traders) ==
    IF traders = <<>> THEN sim
    ELSE WriteBack([sim EXCEPT
                       !.agents.entries[Head(traders).event.agent].cash = Head(traders).cash,
                       !.parties[Head(traders).event.party].good_stock =
                           Head(traders).quantity],
                   Tail(traders))

Traded(sim, done) == WriteBack([sim EXCEPT !.locations = done.locations], done.traders)

TradeResolve(sim, events) ==
    Traded(sim, ProcessTraders([locations |-> sim.locations,
                                traders |-> collect_traders(sim, events)], 1))

(***************************************************************************)
(* The inner tick and the request (tick.rs tick_inner, tick).  A panic of  *)
(* the program is reported by the name of the phase that raised it.        *)
(***************************************************************************)
NoPanic == ""

\* Agents::despawn: the agent and its political links are removed.
AgentsDespawn(agents, id) ==
    [agents EXCEPT
        !.entries = Remove(@, id),
        !.political_hierarchy =
            [c \in {x \in DOMAIN @ \ {id} : @[x] # id} |-> @[c]]]

\* Sites::unbind_location.
unbind_location(sites, site) == [sites EXCEPT !.entries[site].location = None]

\* A despawn that removes the entity record and nothing else.
DespawnEntityOnly(sim, entity_id) ==
    IF entity_id \notin DOMAIN sim.entities THEN sim
    ELSE [sim EXCEPT !.entities = Remove(@, entity_id)]

DespawnOne(sim, entity_id) ==
    IF entity_id \notin DOMAIN sim.entities THEN sim
    ELSE LET entity == sim.entities[entity_id]
             location == sim.locations[entity.location[1]]
         IN [sim EXCEPT
                !.entities = Remove(@, entity_id),
                !.parties = IF entity.party # None THEN Remove(@, entity.party[1]) ELSE @,
                !.beahviors = IF entity.behavior # None
                              THEN Remove(@, entity.behavior[1]) ELSE @,
                !.agents = IF entity.agent # None
                           THEN AgentsDespawn(@, entity.agent[1]) ELSE @,
                !.locations = IF entity.location # None
                              THEN Remove(@, entity.location[1]) ELSE @,
                !.tokens = IF entity.location # None
                           THEN TokensDespawn(@, location.tokens) ELSE @,
                !.sites = IF entity.location # None
                          THEN unbind_location(@, location.site) ELSE @,
                !.pressurables = IF entity.pressure_agent # None
                                 THEN Remove(@, entity.pressure_agent[1]) ELSE @]

RECURSIVE DespawnAll(_, _)
DespawnAll(sim, entities) ==
    IF entities = <<>> THEN sim
    ELSE DespawnAll(DespawnOne(sim, Head(entities)), Tail(entities))

\* The "Despawns" block of tick_inner.
Despawns(sim) ==
    LET keys == SortedKeys({b \in DOMAIN sim.beahviors : sim.beahviors[b].request_despawn})
    IN DespawnAll(sim, [i \in DOMAIN keys |-> sim.beahviors[keys[i]].entity])

\* The phases of tick_inner pass on a run: the simulation so far, the panic
\* that stopped it (NoPanic while it runs), the commands the pressure
\* events ask for, and the parties as move_to_next_coord read them.
Run(sim) == [sim |-> sim, panicked |-> NoPanic, creations |-> <<>>, planned |-> <<>>]

Panic(run, phase) == [run EXCEPT !.panicked = phase]

\* sim.date.advance().
DatePhase(run) == [run EXCEPT !.sim.date = DateAdvance(@)]

\* tick_influences.
InfluencePhase(run) ==
    IF InfluencePanics(run.sim.locations) THEN Panic(run, "tick_influences")
    ELSE [run EXCEPT !.sim.sites = tick_influences(@, run.sim.locations)]

\* The pressure agents updated and the events of the day handled.
Pressured(run, pressure) ==
    IF PressureEventPanics(run.sim, pressure.events)
    THEN Panic(run, "handle_pressure_events")
    ELSE [run EXCEPT
             !.sim.pressurables = pressure.agents,
             !.creations = handle_pressure_events(run.sim, pressure.events)]

\* tick_pressures and handle_pressure_events.
PressurePhase(run) ==
    IF run.panicked # NoPanic THEN run
    ELSE Pressured(run, tick_pressures(run.sim.pressurables, is_new_day(run.sim.date)))

\* tick_location_economy.
EconomyPhase(run) ==
    IF run.panicked # NoPanic THEN run
    ELSE [run EXCEPT !.sim.locations =
             tick_location_economy(@, run.sim.tokens, run.sim.good_types, run.sim.sites,
                                   is_new_day(run.sim.date))]

\* transfer::resolve, then trade::resolve, on the effects of the behaviors.
Resolved(effects) ==
    TradeResolve(TransferResolve(effects.sim, effects.transfers), effects.trade_events)

\* tick_behaviors and the resolution of its effects.
BehaviorPhase(run) ==
    IF run.panicked # NoPanic THEN run
    ELSE IF BehaviorPanics(run.sim) THEN Panic(run, "tick_behaviors")
    ELSE [run EXCEPT !.sim = Resolved(tick_behaviors(run.sim))]

\* The movement phases of tick_inner up to "Advance pathing".
PlanMovement(sim, tie) ==
    [sim EXCEPT !.parties = advance_pathing(pathfind(tick_party_ai(@), sim.sites, tie))]

\* move_to_next_coord on the parties as planned.
Moved(run, planned) ==
    IF MovePanics(planned.parties) # {} THEN Panic(run, "move_to_next_coord")
    ELSE [run EXCEPT
             !.sim = [planned EXCEPT !.parties = move_to_next_coord(@, planned.sites)],
             !.planned = planned.parties]

MovementPhase(run, tie) ==
    IF run.panicked # NoPanic THEN run
    ELSE Moved(run, PlanMovement(run.sim, tie))

\* The time-advancing part of tick_inner.
AdvanceWorld(sim, tie) ==
    MovementPhase(
        BehaviorPhase(EconomyPhase(PressurePhase(InfluencePhase(DatePhase(Run(sim)))))),
        tie)

Created(run, created) ==
    IF created.panicked THEN Panic(run, "bind_location")
    ELSE [run EXCEPT !.sim = Despawns(created.sim)]

\* "Create entities" and "Despawns".
CreatePhase(run, commands) ==
    IF run.panicked # NoPanic THEN run
    ELSE Created(run, process_entity_create_commands(run.sim, commands \o run.creations))

\* The outcome of an inner tick on sim: a panic leaves sim as it was.
Outcome(sim, run) ==
    IF run.panicked # NoPanic
    THEN [sim |-> sim, panicked |-> run.panicked, planned |-> <<>>]
    ELSE [sim |-> run.sim, panicked |-> NoPanic, planned |-> run.planned]

\* An inner tick that advances time whatever it is told.
TickAdvancing(sim, commands, advance_time, tie) ==
    Outcome(sim, CreatePhase(AdvanceWorld(sim, tie), commands))

\* tick_inner: the simulation afterwards, the panic if any, and (for the
\* record) the parties as they stood when move_to_next_coord read them.
tick_inner(sim, commands, advance_time, tie) ==
    Outcome(sim, CreatePhase(IF advance_time THEN AdvanceWorld(sim, tie) ELSE Run(sim),
                             commands))

\* An ObjectId of a request: the null handle, a site, or an entity.
ObjectNull == [k |-> "Null", id |-> NullKey]

ObjectSite(site) == [k |-> "Site", id |-> site]

ObjectEntity(entity) == [k |-> "Entity", id |-> entity]

\* sim.entities[id] on an entity that is not there.
MoveOrderPanics(sim, subject) ==
    subject.k = "Entity" /\ subject.id \notin DOMAIN sim.entities

apply_move_order_to(sim, subject, target) ==
    IF subject.k # "Entity" \/ sim.entities[subject.id].party = None THEN sim
    ELSE [sim EXCEPT !.parties[sim.entities[subject.id].party[1]].movement.target =
             IF target.k = "Site" THEN Some(MovementTargetSite(target.id))
             ELSE IF target.k = "Entity" /\ target.id \in DOMAIN sim.entities
                     /\ sim.entities[target.id].party # None
             THEN Some(MovementTargetParty(sim.entities[target.id].party[1]))
             ELSE None]

\* tick with the move order applied after the first inner tick.
TickThenOrder(sim, request, tie) ==
    IF request.move_to # None /\ MoveOrderPanics(sim, request.move_to[1][1])
    THEN [sim |-> sim, panicked |-> "apply_move_order_to", planned |-> <<>>]
    ELSE LET out == tick_inner(sim, request.create_entity_cmds, request.num_ticks > 0, tie)
         IN IF request.move_to = None \/ out.panicked # NoPanic THEN out
            ELSE [out EXCEPT !.sim = apply_move_order_to(out.sim, request.move_to[1][1],
                                                         request.move_to[1][2])]

\* tick up to the end of its first inner tick: the move order, then an
\* inner tick that takes the commands and advances time unless num_ticks
\* is 0.  request is [move_to, create_entity_cmds, num_ticks].
tick(sim, request, tie) ==
    IF request.move_to # None /\ MoveOrderPanics(sim, request.move_to[1][1])
    THEN [sim |-> sim, panicked |-> "apply_move_order_to", planned |-> <<>>]
    ELSE tick_inner(IF request.move_to = None THEN sim
                    ELSE apply_move_order_to(sim, request.move_to[1][1],
                                             request.move_to[1][2]),
                    request.create_entity_cmds, request.num_ticks > 0, tie)

(***************************************************************************)
(* The view (view.rs, tick.rs tick "Extract view").  A position is a pair  *)
(* of f32 values; the graphs of the model have no negative coordinate.  An *)
(* object carries its id, its kind and the names of the sections that      *)
(* extract_object fills in for it; the formatted numbers are left out.     *)
(***************************************************************************)
\* f32::MIN, below every position of the model, and f32::MAX.
F32Lowest == [m |-> -2, e |-> 0]

F32Max == [m |-> 2^24 - 1, e |-> 104]

\* Extents::default(): V2::MIN to V2::MAX.
ExtentsDefault ==
    [top_left |-> <<F32Lowest, F32Lowest>>, bottom_right |-> <<F32Max, F32Max>>]

ObjectGlobal == [k |-> "Global", id |-> NullKey]

\* The f32 of n / 2^s, n >= 0.
F32Scaled(n, s) == IF n = 0 THEN F32Zero ELSE F32FromScaled(n, 0, 1, -s)

\* The V2 of a site as a pair of f32 values.
SitePos(sites, site) ==
    << F32Scaled(sites.entries[site].pos[1], sites.entries[site].pos[3]),
       F32Scaled(sites.entries[site].pos[2], sites.entries[site].pos[3]) >>

\* lerp(a, b, t) = a + (b - a) * t, for a <= b.
lerp(a, b, t) == F32Add(a, F32Mul(F32Sub(b, a), t))

\* lerp for either order of a and b: a - (a - b) * t when b < a.
LerpEither(a, b, t) ==
    IF F32Le(a, b) THEN lerp(a, b, t) ELSE F32Sub(a, F32Mul(F32Sub(a, b), t))

pos_of_grid_coordinate(sites, coord) ==
    IF coord.k = "At" THEN SitePos(sites, coord.a)
    ELSE << LerpEither(SitePos(sites, coord.a)[1], SitePos(sites, coord.b)[1], coord.t),
            LerpEither(SitePos(sites, coord.a)[2], SitePos(sites, coord.b)[2], coord.t) >>

\* Extents::contains.
ExtentsContains(extents, point) ==
    /\ extents.top_left[1] = F32Lowest \/ F32Le(extents.top_left[1], point[1])
    /\ extents.top_left[2] = F32Lowest \/ F32Le(extents.top_left[2], point[2])
    /\ F32Le(point[1], extents.bottom_right[1])
    /\ F32Le(point[2], extents.bottom_right[2])

\* The items of the sites without a location, in key order.
SiteItems(sim, viewport) ==
    LET keys == SortedKeys({site \in SiteIds(sim.sites) :
                               /\ ExtentsContains(viewport, SitePos(sim.sites, site))
                               /\ sim.sites.entries[site].location = None})
    IN [i \in DOMAIN keys |->
           [id |-> ObjectSite(keys[i]), kind |-> "Site",
            pos |-> SitePos(sim.sites, keys[i]), layer |-> 0]]

\* The items of the parties, in key order.
PartyItems(sim, viewport) ==
    LET keys == SortedKeys({p \in DOMAIN sim.parties :
                               ExtentsContains(viewport,
                                   pos_of_grid_coordinate(sim.sites,
                                                          sim.parties[p].position))})
    IN [i \in DOMAIN keys |->
           [id |-> ObjectEntity(sim.parties[keys[i]].entity), kind |-> "Party",
            pos |-> pos_of_grid_coordinate(sim.sites, sim.parties[keys[i]].position),
            layer |-> sim.parties[keys[i]].layer]]

\* sort_by_key(layer), a stable sort: the items of layer 0, then of layer 1.
SortByLayer(items) ==
    SelectSeq(items, LAMBDA item : item.layer = 0)
        \o SelectSeq(items, LAMBDA item : item.layer # 0)

\* map_view_items with the parties chained before the sites.
PartiesChainedFirst(sim, viewport) ==
    SortByLayer(PartyItems(sim, viewport) \o SiteItems(sim, viewport))

map_view_items(sim, viewport) ==
    SortByLayer(SiteItems(sim, viewport) \o PartyItems(sim, viewport))

\* sim.entities[party.entity] in map_view_items.
MapItemsPanic(sim) ==
    \E p \in DOMAIN sim.parties : sim.parties[p].entity \notin DOMAIN sim.entities

\* The sections extract_object fills in for an entity.
EntitySections(entity) ==
    (IF entity.agent # None THEN {"cash"} ELSE {})
        \cup (IF entity.party # None THEN {"good_stock"} ELSE {})
        \cup (IF entity.location # None THEN {"location"} ELSE {})
        \cup (IF entity.pressure_agent # None THEN {"pressure_agent"} ELSE {})

\* extract_object without the lookup of the entity.
ExtractUnchecked(sim, id) ==
    IF id.k = "Null" THEN None
    ELSE Some([id |-> id, kind |-> "", sections |-> {}])

extract_object(sim, id) ==
    IF id.k = "Null" THEN None
    ELSE IF id.k = "Global"
    THEN Some([id |-> id, kind |-> "Global", sections |-> {"date"}])
    ELSE IF id.k = "Site" THEN Some([id |-> id, kind |-> "Site", sections |-> {}])
    ELSE IF id.id \notin DOMAIN sim.entities THEN None
    ELSE Some([id |-> id, kind |-> sim.entities[id.id].kind_name,
               sections |-> EntitySections(sim.entities[id.id])])

\* The indexings of extract_object that fail on a missing key.
ExtractPanics(sim, id) ==
    /\ id.k = "Entity"
    /\ id.id \in DOMAIN sim.entities
    /\ LET entity == sim.entities[id.id]
       IN \/ entity.agent # None /\ entity.agent[1] \notin DOMAIN sim.agents.entries
          \/ entity.party # None /\ entity.party[1] \notin DOMAIN sim.parties
          \/ entity.location # None /\ entity.location[1] \notin DOMAIN sim.locations
          \/ /\ entity.location # None
             /\ entity.location[1] \in DOMAIN sim.locations
             /\ \E i \in DOMAIN sim.sites.entries[
                                    sim.locations[entity.location[1]].site].influences :
                    sim.sites.entries[sim.locations[entity.location[1]].site]
                        .influences[i].typ.source \notin DOMAIN sim.parties
          \/ entity.pressure_agent # None
             /\ entity.pressure_agent[1] \notin DOMAIN sim.pressurables

ViewPanics(sim, request) ==
    \/ MapItemsPanic(sim)
    \/ \E i \in DOMAIN request.objects_to_extract :
           ExtractPanics(sim, request.objects_to_extract[i])

\* The SimView returned by tick, without the map lines.
SimViewOf(sim, request) ==
    [map_items |-> map_view_items(sim, request.map_viewport),
     objects |-> [i \in DOMAIN request.objects_to_extract |->
                     extract_object(sim, request.objects_to_extract[i])]]

(***************************************************************************)
(* Simulation::new (simulation.rs init): the catalogs of goods and token   *)
(* types, the date, and a site graph.  A world is [sites, connections]:    *)
(* the descriptions init defines and connects, in order.                   *)
(***************************************************************************)
\* wheat, meat, lumber, tools
GoodTypes ==
    << [price |-> R(10), food_rate |-> ROne], [price |-> R(10), food_rate |-> ROne],
       [price |-> R(10), food_rate |-> RZero], [price |-> R(20), food_rate |-> RZero] >>

NoGoods == <<RZero, RZero, RZero, RZero>>

\* paesants, artisans, nobles, wheat_farm, lumber_field, toolmaker
TokenTypes ==
    << [category |-> "Pop", supply |-> NoGoods,
        demand |-> <<ROne, RZero, <<1, 10>>, RZero>>, rgo_points |-> ROne],
       [category |-> "Pop", supply |-> NoGoods,
        demand |-> <<ROne, <<1, 5>>, <<1, 10>>, ROne>>, rgo_points |-> RZero],
       [category |-> "Pop", supply |-> NoGoods,
        demand |-> <<ROne, ROne, <<1, 10>>, RZero>>, rgo_points |-> RZero],
       [category |-> "Building", supply |-> NoGoods,
        demand |-> <<R(100), RZero, RZero, RZero>>, rgo_points |-> RZero],
       [category |-> "Building", supply |-> NoGoods,
        demand |-> <<RZero, RZero, R(100), RZero>>, rgo_points |-> RZero],
       [category |-> "Building", supply |-> <<RZero, RZero, R(10), RZero>>,
        demand |-> <<RZero, RZero, RZero, R(10)>>, rgo_points |-> RZero] >>

RgoCapacity == 5000

Rgo(rates) == [rates |-> rates, capacity |-> RgoCapacity]

RgoWheatLumber == Rgo(<< <<6, 5>>, RZero, <<1, 2>>, RZero >>)

RgoWheat == Rgo(<< <<8, 5>>, RZero, RZero, RZero >>)

RgoNone == Rgo(NoGoods)

\* The graph of init: caer_ligualid, din_drust, anava, llan_heledd,
\* caer_ligualid-din_drust, caer_ligualid_south.
InitWorld ==
    [sites |-> << [pos |-> <<0, 0, 0>>, rgo |-> RgoWheatLumber],
                  [pos |-> <<-6, -9, 0>>, rgo |-> RgoWheatLumber],
                  [pos |-> <<7, -3, 0>>, rgo |-> RgoWheat],
                  [pos |-> <<3, 12, 0>>, rgo |-> RgoWheatLumber],
                  [pos |-> <<-4, -4, 0>>, rgo |-> RgoNone],
                  [pos |-> <<0, 8, 0>>, rgo |-> RgoNone] >>,
     connections |-> << <<1, 3>>, <<2, 3>>, <<1, 6>>, <<6, 4>>, <<1, 5>>, <<2, 5>> >>]

InitDate == DateWithCalendar(1, 1, 363)

RECURSIVE DefineSites(_, _)
DefineSites(sites, descs) ==
    IF descs = <<>> THEN sites
    ELSE DefineSites(SitesDefine(sites, Head(descs).pos, Head(descs).rgo), Tail(descs))

RECURSIVE ConnectSites(_, _)
ConnectSites(sites, connections) ==
    IF connections = <<>> THEN sites
    ELSE ConnectSites(SitesConnect(sites, Head(connections)[1], Head(connections)[2]),
                      Tail(connections))

\* The simulation after construction over the graph of world.
init(world) ==
    [date |-> InitDate,
     good_types |-> GoodTypes,
     tokens |-> TokensEmpty(TokenTypes),
     sites |-> ConnectSites(DefineSites(SitesEmpty, world.sites), world.connections),
     entities |-> <<>>,
     agents |-> [entries |-> <<>>, tags |-> <<>>, political_hierarchy |-> <<>>],
     parties |-> <<>>,
     locations |-> <<>>,
     pressurables |-> <<>>,
     beahviors |-> <<>>,
     next |-> [entity |-> 1, agent |-> 1, party |-> 1, location |-> 1,
               pressurable |-> 1, behavior |-> 1]]

(***************************************************************************)
(* The state: the simulation, the panic that stopped the program (NoPanic  *)
(* while it runs), and, for the record, the last request with the parties  *)
(* as the last inner tick moved them, the numbers of commands and orders   *)
(* issued with the inner ticks the request in progress has left to run,    *)
(* and the argument and result of a function applied on its own.           *)
(***************************************************************************)
VARIABLES sim, halted, last, plan, issued, probe

vars == <<sim, halted, last, plan, issued, probe>>

\* TickRequest::default().
NoRequest ==
    [move_to |-> None, create_entity_cmds |-> <<>>, num_ticks |-> 0,
     map_viewport |-> ExtentsDefault, objects_to_extract |-> <<>>]

NoneIssued == [creates |-> 0, orders |-> 0, left |-> 0]

InitOver(world) ==
    /\ sim = init(world)
    /\ halted = NoPanic
    /\ last = NoRequest
    /\ plan = <<>>
    /\ issued = NoneIssued
    /\ probe = <<>>

\* The state after an inner tick gave out.
Answered(out) ==
    /\ sim' = out.sim
    /\ halted' = out.panicked
    /\ plan' = out.planned
    /\ UNCHANGED probe

\* Simulation::tick called on a request, up to the end of its first inner
\* tick, for either order of the pathfinder's ties.
Request(request) ==
    /\ halted = NoPanic
    /\ issued.left = 0
    /\ \E tie \in {"lo", "hi"} : Answered(tick(sim, request, tie))
    /\ last' = request
    /\ issued' = [creates |-> issued.creates + Len(request.create_entity_cmds),
                  orders |-> issued.orders + Len(request.move_to),
                  left |-> Max2(request.num_ticks, 1) - 1]

\* The next inner tick handed the commands of the request once more.
ContinueReapplying ==
    /\ halted = NoPanic
    /\ issued.left > 0
    /\ \E tie \in {"lo", "hi"} : Answered(tick_inner(sim, last.create_entity_cmds, TRUE, tie))
    /\ issued' = [issued EXCEPT !.left = @ - 1]
    /\ UNCHANGED last

\* The next inner tick of the request in progress: for _ in 0..num_ticks.
Continue ==
    /\ halted = NoPanic
    /\ issued.left > 0
    /\ \E tie \in {"lo", "hi"} : Answered(tick_inner(sim, <<>>, TRUE, tie))
    /\ issued' = [issued EXCEPT !.left = @ - 1]
    /\ UNCHANGED last

\* No request is in progress.
Idle == issued.left = 0

\* The ticks elapsed since construction.
Elapsed == sim.date - InitDate

\* The sites reachable from a site along edges.
RECURSIVE ReachFrom(_, _)
ReachFrom(sites, seen) ==
    LET Next1(s) == {sites.entries[s].neighbours[i][1] :
                        i \in 1..Len(sites.entries[s].neighbours)}
        more == seen \cup UNION {Next1(s) : s \in seen}
    IN IF more = seen THEN seen ELSE ReachFrom(sites, more)

Reachable(sites, from, to) == to \in ReachFrom(sites, {from})

(***************************************************************************)
(* Movement: persons ordered about a small graph.  Site 1 and site 2 are   *)
(* joined by an edge of length sqrt(2)/8, site 3 has no edge.              *)
(***************************************************************************)
MoveWorld ==
    [sites |-> << [pos |-> <<0, 0, 3>>, rgo |-> RgoNone],
                  [pos |-> <<1, 1, 3>>, rgo |-> RgoNone],
                  [pos |-> <<8, 0, 3>>, rgo |-> RgoNone] >>,
     connections |-> << <<1, 2>> >>]

MaxPersons == 2

MaxOrders == 2

MaxMoveTicks == 9

SomeFaction == 1

InitMove == InitOver(MoveWorld)

MoveCreatePerson ==
    /\ issued.creates < MaxPersons
    /\ Elapsed = 0
    /\ \E site \in SiteIds(sim.sites) :
         Request([NoRequest EXCEPT
                     !.create_entity_cmds = <<create_person(site, SomeFaction)>>])

\* The objects a move order can name as its target.
MoveTargets ==
    {ObjectNull} \cup {ObjectSite(s) : s \in SiteIds(sim.sites)}
                 \cup {ObjectEntity(e) : e \in DOMAIN sim.entities}

MoveOrder ==
    /\ issued.orders < MaxOrders
    /\ \E subject \in DOMAIN sim.entities, target \in MoveTargets :
         Request([NoRequest EXCEPT
                     !.move_to = Some(<<ObjectEntity(subject), target>>)])

MoveTick ==
    /\ Elapsed < MaxMoveTicks
    /\ sim.parties # <<>>
    /\ Request([NoRequest EXCEPT !.num_ticks = 1])

NextMove == MoveCreatePerson \/ MoveOrder \/ MoveTick

SpecMove == InitMove /\ [][NextMove]_vars

\* The parameter of a coordinate on the edge from start to end.
ParamOn(c, start, end) ==
    IF c.k = "At" THEN (IF c.a = start THEN F32Zero ELSE F32One)
    ELSE IF c.a = start THEN c.t ELSE F32Sub(F32One, c.t)

\* The parties the last inner tick moved along a path: those that had a
\* path head when move_to_next_coord ran and are still there.
Movers == {p \in DOMAIN plan \cap DOMAIN sim.parties : plan[p].movement.path # <<>>}

\* The ColinearPair the last inner tick used for a mover.
MoverPair(p) == as_colinear(plan[p].position, PathBeginning(plan[p].movement.path)[1])[1]

\* A mover's parameter is within [0, 1] and not past the head of its path.
NotPastHead(p) ==
    LET cp == MoverPair(p)
        next_t == ParamOn(sim.parties[p].position, cp.start, cp.end)
    IN /\ F32Le(F32Zero, next_t) /\ F32Le(next_t, F32One)
       /\ IF F32Le(cp.t1, cp.t2) THEN F32Le(next_t, cp.t2) ELSE F32Le(cp.t2, next_t)

\* A party at its destination stays there while the destination is the same.
StaysArrived ==
    \A p \in DOMAIN sim.parties \cap DOMAIN sim'.parties :
        (/\ sim.parties[p].movement.destination = Some(sim.parties[p].position)
         /\ sim'.parties[p].movement.destination = sim.parties[p].movement.destination)
        => sim'.parties[p].position = sim.parties[p].position

\* C1: movement never overshoots: after every movement-integration step each
\* party with a non-empty path has its parameter within [0, 1] on its edge and
\* has not moved past the head of its path, a Between head (the mid-edge
\* position of a pursued party) included; and a party whose position equals
\* its destination keeps that position while the destination is unchanged.
C1_NeverOvershoots ==
    /\ [](\A p \in Movers : NotPastHead(p))
    /\ [][StaysArrived]_vars

\* The mobile parties whose target is a site out of reach of their position.
Stranded(s) ==
    {p \in DOMAIN s.parties :
        /\ s.parties[p].movement_speed # F32Zero
        /\ s.parties[p].movement.target # None
        /\ s.parties[p].movement.target[1].k = "Site"
        /\ ~Reachable(s.sites, closest_endpoint(s.parties[p].position),
                      s.parties[p].movement.target[1].id)}

\* C3: a mobile party whose target is a site that cannot be reached from its
\* position never changes position on a later tick, every such tick completes
\* without a panic, and the edge distance the tick used for it is infinite (so
\* that its parametric step is 0).
C3_UnreachableStaysPut ==
    /\ [][\A p \in Stranded(sim) :
             /\ halted' = NoPanic
             /\ p \in DOMAIN sim'.parties
             /\ sim'.parties[p].position = sim.parties[p].position]_vars
    /\ [](\A p \in Stranded(sim) \cap Movers :
             SitesDistance(sim.sites, MoverPair(p).start, MoverPair(p).end) = F32Inf)

(***************************************************************************)
(* Travel: one person walking the length of an edge of distance 10.        *)
(***************************************************************************)
TravelWorld ==
    [sites |-> << [pos |-> <<0, 0, 0>>, rgo |-> RgoNone],
                  [pos |-> <<10, 0, 0>>, rgo |-> RgoNone] >>,
     connections |-> << <<1, 2>> >>]

MaxTravelTicks == 404

InitTravel == InitOver(TravelWorld)

TravelCreate ==
    /\ issued.creates = 0
    /\ \E site \in SiteIds(sim.sites) :
         Request([NoRequest EXCEPT
                     !.create_entity_cmds = <<create_person(site, SomeFaction)>>])

\* The person is sent to the other end of the edge before any tick.
TravelOrder ==
    /\ issued.creates = 1
    /\ issued.orders = 0
    /\ \E e \in DOMAIN sim.entities :
         Request([NoRequest EXCEPT !.move_to =
             Some(<<ObjectEntity(e),
                    ObjectSite(IF sim.parties[sim.entities[e].party[1]].position = At(1)
                               THEN 2 ELSE 1)>>)])

TravelTick ==
    /\ issued.orders = 1
    /\ Elapsed < MaxTravelTicks
    /\ Request([NoRequest EXCEPT !.num_ticks = 1])

NextTravel == TravelCreate \/ TravelOrder \/ TravelTick

SpecTravel == InitTravel /\ [][NextTravel]_vars

\* The person has been sent from site 1 to site 2, Elapsed ticks ago.
Travelling(p) ==
    /\ issued.orders = 1
    /\ p \in DOMAIN sim.parties
    /\ sim.parties[p].movement.target = Some(MovementTargetSite(2))

\* C2 (as the code has it): over an edge of distance 10, a party of speed 2.5
\* sent from At(A) to site B is at At(B) after exactly 401 time-advancing
\* ticks and not before (400 f32 steps of 0.0025 add up to 0.9999992), and its
\* path, still holding the waypoint on arrival, is empty from the tick after.
C2_ArrivesAfter401 ==
    \A p \in DOMAIN sim.parties :
        Travelling(p) =>
            /\ (Elapsed < 401 => sim.parties[p].position # At(2))
            /\ (Elapsed >= 401 => sim.parties[p].position = At(2))
            /\ (1 <= Elapsed /\ Elapsed <= 401 => sim.parties[p].movement.path # <<>>)
            /\ (Elapsed > 401 => sim.parties[p].movement.path = <<>>)

C2_Arrived ==
    \E p \in DOMAIN sim.parties :
        /\ Travelling(p)
        /\ Elapsed = 402
        /\ sim.parties[p].position = At(2)
        /\ sim.parties[p].movement.path = <<>>

\* C2 as stated: after exactly 400 ticks the position is At(B) and the path
\* is empty.
C2_ArrivesAfter400 ==
    \A p \in DOMAIN sim.parties :
        Travelling(p) /\ Elapsed = 400 =>
            /\ sim.parties[p].position = At(2)
            /\ sim.parties[p].movement.path = <<>>

(***************************************************************************)
(* Sites::astar applied on its own: four sites on a line, any set of the   *)
(* six possible edges, or the graph of init; any start and end.            *)
(***************************************************************************)
LineSites ==
    << [pos |-> <<0, 0, 0>>, rgo |-> RgoNone], [pos |-> <<1, 3, 0>>, rgo |-> RgoNone],
       [pos |-> <<2, 6, 0>>, rgo |-> RgoNone], [pos |-> <<3, 9, 0>>, rgo |-> RgoNone] >>

AllEdges == << <<1, 2>>, <<1, 3>>, <<1, 4>>, <<2, 3>>, <<2, 4>>, <<3, 4>> >>

AstarWorlds ==
    {[sites |-> LineSites, connections |-> SelectSeq(AllEdges, LAMBDA e : e \in E)] :
        E \in SUBSET {AllEdges[i] : i \in DOMAIN AllEdges}} \cup {InitWorld}

Unset == "unset"

InitAstar ==
    /\ sim \in {init(w) : w \in AstarWorlds}
    /\ halted = NoPanic
    /\ last = NoRequest
    /\ plan = <<>>
    /\ issued = NoneIssued
    /\ probe \in [start : 1..4, end : 1..4, result : {Unset}]

AstarCall ==
    /\ probe.result = Unset
    /\ \E tie \in {"lo", "hi"} :
         probe' = [probe EXCEPT !.result = SitesAstar(sim.sites, probe.start, probe.end, tie)]
    /\ UNCHANGED <<sim, halted, last, plan, issued>>

NextAstar == AstarCall

SpecAstar == InitAstar /\ [][NextAstar]_vars

\* The steps are a walk along edges.
IsWalk(sites, steps) ==
    \A i \in 1..(Len(steps) - 1) :
        \E j \in 1..Len(sites.entries[steps[i]].neighbours) :
            sites.entries[steps[i]].neighbours[j][1] = steps[i + 1]

RECURSIVE WalkCost(_, _)
\* The sum of the integer-scaled edge distances along the steps.
WalkCost(sites, steps) ==
    IF Len(steps) < 2 THEN 0
    ELSE metric(SitesDistance(sites, steps[1], steps[2])) + WalkCost(sites, Tail(steps))

RECURSIVE Relaxed(_, _, _)
\* The least cost from the start to each site it reaches over routes of at
\* most k more edges, dist being those costs so far.
Relaxed(sites, dist, k) ==
    IF k = 0 THEN dist
    ELSE LET Via(v) == {dist[u] + metric(SitesDistance(sites, u, v)) :
                           u \in {w \in DOMAIN dist : SitesDistance(sites, w, v) # F32Inf}}
             Known(v) == IF v \in DOMAIN dist THEN {dist[v]} ELSE {}
             reached == {v \in SiteIds(sites) : Via(v) \cup Known(v) # {}}
         IN Relaxed(sites,
                [v \in reached |->
                    CHOOSE c \in Via(v) \cup Known(v) : \A d \in Via(v) \cup Known(v) : c <= d],
                k - 1)

\* The least cost of a route from start to end, end being reachable.
CheapestCost(sites, start, end) ==
    Relaxed(sites, [v \in {start} |-> 0], Len(sites.entries))[end]

\* C10: astar(start, end) returns none iff end cannot be reached from start;
\* otherwise the steps are a walk along edges from start to end, the returned
\* cost is the sum of the integer-scaled edge distances of the walk, and no
\* route has a smaller cost.
C10_AstarOptimal ==
    probe # <<>> /\ "start" \in DOMAIN probe /\ probe.result # Unset =>
        /\ (probe.result = None) <=> ~Reachable(sim.sites, probe.start, probe.end)
        /\ probe.result # None =>
              LET steps == probe.result[1].steps
              IN /\ steps[1] = probe.start
                 /\ steps[Len(steps)] = probe.end
                 /\ IsWalk(sim.sites, steps)
                 /\ probe.result[1].cost = from_metric(WalkCost(sim.sites, steps))
                 /\ WalkCost(sim.sites, steps)
                        <= CheapestCost(sim.sites, probe.start, probe.end)

(***************************************************************************)
(* trade::resolve_trade applied on its own to a trader and a market of two *)
(* goods.                                                                  *)
(***************************************************************************)
TradeCash == {RZero, R(25), R(100)}

TradeQuantity == {RZero, R(2)}

TradePrice == {<<5, 2>>, R(10), R(20)}

TradeStock == {RZero, R(3), R(20)}

TradeGood(price, stock) == [MarketGoodDefault EXCEPT !.price = price, !.stock = stock]

InitTrade ==
    /\ sim = init(InitWorld)
    /\ halted = NoPanic
    /\ last = NoRequest
    /\ plan = <<>>
    /\ issued = NoneIssued
    /\ \E cash \in TradeCash, q1, q2 \in TradeQuantity, p1, p2 \in TradePrice,
          s1, s2 \in TradeStock :
         probe = [trader |-> [cash |-> cash, quantity |-> <<q1, q2>>],
                  goods |-> <<TradeGood(p1, s1), TradeGood(p2, s2)>>,
                  result |-> None]

TradeCall ==
    /\ probe.result = None
    /\ probe' = [probe EXCEPT !.result = Some(resolve_trade(probe.trader, probe.goods))]
    /\ UNCHANGED <<sim, halted, last, plan, issued>>

NextTrade == TradeCall

SpecTrade == InitTrade /\ [][NextTrade]_vars

\* The trader carries nothing and g is the one good in stock.
OnlyGoodInStock(g) ==
    /\ \A h \in DOMAIN probe.goods : probe.trader.quantity[h] = RZero
    /\ RLt(RZero, probe.goods[g].stock)
    /\ \A h \in DOMAIN probe.goods \ {g} : probe.goods[h].stock = RZero

\* C7: a trader carrying no goods, with cash c, facing exactly one good with
\* positive stock s at price p, holds min(c / p, s) units of it after the
\* trade; the market stock is s less that amount and the cash is c less p
\* times that amount.
C7_BuysWhatCashAndStockAllow ==
    probe # <<>> /\ "trader" \in DOMAIN probe /\ probe.result # None =>
        \A g \in DOMAIN probe.goods :
            OnlyGoodInStock(g) =>
                LET amount == RMin(RDiv(probe.trader.cash, probe.goods[g].price),
                                   probe.goods[g].stock)
                IN /\ probe.result[1].quantity[g] = amount
                   /\ probe.result[1].goods[g].stock = RSub(probe.goods[g].stock, amount)
                   /\ probe.result[1].cash =
                          RSub(probe.trader.cash, RMul(probe.goods[g].price, amount))

\* Cash 100, price 10, stock 3: 3 units bought, cash 70.
C7_ThreeUnitsForThirty ==
    /\ probe # <<>> /\ "trader" \in DOMAIN probe /\ probe.result # None
    /\ OnlyGoodInStock(1)
    /\ probe.trader.cash = R(100)
    /\ probe.goods[1].price = R(10)
    /\ probe.goods[1].stock = R(3)
    /\ probe.result[1].quantity[1] = R(3)
    /\ probe.result[1].cash = R(70)

(***************************************************************************)
(* Settlement: one village created on the graph of init with some tokens,  *)
(* and the days that follow.                                               *)
(***************************************************************************)
MaxLocations == 1

MaxEconDays == 2

MaxOffset == 1

MaxEconTicks == MaxEconDays * TICKS_IN_DAY + MaxOffset

TokenCreate(tag, size) == [tag |-> tag, size |-> size]

\* Token lists of a create-location command; tag 9 names no token type.
EconTokens ==
    { <<TokenCreate(1, 50)>>, <<TokenCreate(1, 100)>>, <<TokenCreate(1, 250)>>,
      <<TokenCreate(3, 100)>>,
      <<TokenCreate(1, 100), TokenCreate(3, 50)>>,
      <<TokenCreate(9, 100), TokenCreate(2, 50)>> }

\* caer_ligualid (wheat 1.2), anava (wheat 1.6)
EconSites == {1, 3}

InitEcon == InitOver(InitWorld)

EconCreate ==
    /\ Idle
    /\ issued.creates < MaxLocations
    /\ \E site \in EconSites, toks \in EconTokens, n \in {0, 1, TICKS_IN_DAY} :
         /\ Elapsed + n <= MaxEconTicks
         /\ Request([NoRequest EXCEPT
                        !.create_entity_cmds =
                            <<create_location(site, SomeFaction, "village", RZero, toks)>>,
                        !.num_ticks = n])

EconTick ==
    /\ Idle
    /\ \E n \in {1, TICKS_IN_DAY} :
         /\ Elapsed + n <= MaxEconTicks
         /\ n = 1 => Elapsed % TICKS_IN_DAY < MaxOffset
         /\ Request([NoRequest EXCEPT !.num_ticks = n])

NextEcon == EconCreate \/ EconTick \/ Continue

SpecEcon == InitEcon /\ [][NextEcon]_vars

RECURSIVE PopSizes(_)
\* The sizes of the pop tokens of known types in a token list.
PopSizes(toks) ==
    IF toks = <<>> THEN 0
    ELSE (IF Head(toks).tag \in DOMAIN TokenTypes
             /\ TokenTypes[Head(toks).tag].category = "Pop"
          THEN Head(toks).size ELSE 0) + PopSizes(Tail(toks))

\* The last request carried a create-location command, which made the
\* newest location.
JustCreated ==
    /\ halted = NoPanic
    /\ Idle
    /\ last.create_entity_cmds # <<>>
    /\ last.create_entity_cmds[1].location # None
    /\ sim.next.location - 1 \in DOMAIN sim.locations

\* C5: immediately after a create-location command with pop tokens of known
\* types has been processed, whatever the tick count of the request, the
\* population of the new location is the sum of the sizes of those tokens.
C5_PopulationOnCreation ==
    JustCreated =>
        sim.locations[sim.next.location - 1].population
            = PopSizes(last.create_entity_cmds[1].location[1].tokens)

\* The market of every location that stood before the last inner tick was
\* ticked by it: that tick fell on a day boundary.
DayTicked ==
    /\ halted = NoPanic
    /\ Idle
    /\ last.num_ticks >= 1
    /\ is_new_day(sim.date)
    /\ (last.create_entity_cmds = <<>> \/ last.num_ticks > 1)

\* All the tokens of location l are of one pop type that demands 1.0 wheat
\* per size, and its site's RGO produces wheat.
WheatScenario(l) ==
    LET ids == all_tokens_in(sim.tokens, sim.locations[l].tokens)
    IN /\ Len(ids) = 1
       /\ sim.tokens.types[sim.tokens.tokens[ids[1]].typ].category = "Pop"
       /\ sim.tokens.types[sim.tokens.tokens[ids[1]].typ].demand[1] = ROne
       /\ RLt(RZero, sim.sites.entries[sim.locations[l].site].rgo.rates[1])

\* The wheat the RGO of l's site yields in a day, from l's one token.
WheatOutput(l) ==
    LET tok == sim.tokens.tokens[all_tokens_in(sim.tokens, sim.locations[l].tokens)[1]]
        rgo == sim.sites.entries[sim.locations[l].site].rgo
        points == RMul(sim.tokens.types[tok.typ].rgo_points, <<tok.size, 100>>)
    IN RMul(rgo.rates[1], R(Min2(RFloor(RNorm(points[1], points[2])), rgo.capacity)))

\* The wheat l's one token demands in a day.
WheatDemand(l) ==
    LET tok == sim.tokens.tokens[all_tokens_in(sim.tokens, sim.locations[l].tokens)[1]]
    IN RNorm(tok.size, 100)

Wheat(l) == sim.locations[l].market.goods[1]

WheatCap(l) == RNorm(sim.locations[l].population, 10)

\* C6 as stated: after a day tick wheat.stock_delta is strictly positive
\* when the RGO output exceeds the pop demand and strictly negative
\* otherwise.
C6_DeltaPositiveOrNegative ==
    DayTicked =>
        \A l \in DOMAIN sim.locations :
            WheatScenario(l) =>
                IF RLt(WheatDemand(l), WheatOutput(l))
                THEN RLt(RZero, Wheat(l).stock_delta)
                ELSE RLt(Wheat(l).stock_delta, RZero)

\* C6: after a day tick wheat.stock_delta is strictly positive when the RGO
\* output exceeds the pop demand, unless the stock stands at its cap; when
\* the output does not exceed the demand it is never positive, and it is
\* zero when the previous stock was 0, as on the first day tick.
C6_DeltaPositiveOrZero ==
    DayTicked =>
        \A l \in DOMAIN sim.locations :
            WheatScenario(l) =>
                IF RLt(WheatDemand(l), WheatOutput(l))
                THEN RLt(RZero, Wheat(l).stock_delta) \/ Wheat(l).stock = WheatCap(l)
                ELSE /\ RLe(Wheat(l).stock_delta, RZero)
                     /\ Wheat(l).stock = Wheat(l).stock_delta => Wheat(l).stock_delta = RZero

\* A first day tick on a village whose paesants demand more wheat than its
\* RGO yields: the stock stays at 0.
C6_DeficitOnFirstDay ==
    /\ DayTicked
    /\ \E l \in DOMAIN sim.locations :
         /\ WheatScenario(l)
         /\ RLe(WheatOutput(l), WheatDemand(l))
         /\ RLt(RZero, WheatDemand(l))
         /\ Wheat(l).stock_delta = RZero

(***************************************************************************)
(* Influence: one town on a graph, its Market influence spreading a hop a  *)
(* tick.                                                                   *)
(***************************************************************************)
MaxInflTicks == 8

\* The sizes of the one nobles token of the town.
TownSizes == {1, 3, 100}

InitInfl ==
    /\ sim \in {init(w) : w \in AstarWorlds}
    /\ halted = NoPanic
    /\ last = NoRequest
    /\ plan = <<>>
    /\ issued = NoneIssued
    /\ probe = <<>>

InflCreate ==
    /\ issued.creates = 0
    /\ \E site \in SiteIds(sim.sites), size \in TownSizes :
         Request([NoRequest EXCEPT
                     !.create_entity_cmds =
                         <<create_location(site, SomeFaction, "town", RZero,
                                           <<TokenCreate(3, size)>>)>>,
                     !.num_ticks = 1])

InflTick ==
    /\ issued.creates = 1
    /\ Elapsed < MaxInflTicks
    /\ Request([NoRequest EXCEPT !.num_ticks = 1])

NextInfl == InflCreate \/ InflTick

SpecInfl == InitInfl /\ [][NextInfl]_vars

\* The sites at k hops or fewer from the sites of seen.
RECURSIVE Within(_, _, _)
Within(sites, seen, k) ==
    IF k = 0 THEN seen
    ELSE Within(sites,
                seen \cup UNION {{sites.entries[s].neighbours[i][1] :
                                     i \in 1..Len(sites.entries[s].neighbours)} : s \in seen},
                k - 1)

\* dist(u) <= dist(v): u is at no more hops from the site from than v is;
\* a site out of reach is farther than any within reach.
NoFarther(sites, from, u, v) ==
    \A k \in 0..Len(sites.entries) :
        v \in Within(sites, {from}, k) => u \in Within(sites, {from}, k)

\* The amount of the influence of source at a site, 0 when it has none.
AmountAt(sites, site, source) ==
    LET hits == {i \in DOMAIN sites.entries[site].influences :
                    sites.entries[site].influences[i].typ.source = source}
    IN IF hits = {} THEN 0
       ELSE sites.entries[site].influences[CHOOSE i \in hits : TRUE].amount

\* The influence lists have stopped changing: propagating once more from
\* the same sources leaves every list as it is.
Stable == ~InfluencePanics(sim.locations)
          /\ tick_influences(sim.sites, sim.locations) = sim.sites

\* C9: with a single constant influence source, once the influence lists
\* have stopped changing, the amount of that source at a site is
\* non-increasing in the site's hop distance from the source.
C9_NonIncreasingWithHops ==
    Stable =>
        \A l \in DOMAIN sim.locations, u, v \in SiteIds(sim.sites) :
            NoFarther(sim.sites, sim.locations[l].site, u, v) =>
                AmountAt(sim.sites, u, sim.locations[l].party)
                    >= AmountAt(sim.sites, v, sim.locations[l].party)

\* The lists are stable with the town's influence falling from hop to hop
\* over three sites.
C9_SettledAndFalling ==
    /\ Stable
    /\ \E l \in DOMAIN sim.locations, u, v \in SiteIds(sim.sites) :
         /\ NoFarther(sim.sites, sim.locations[l].site, sim.locations[l].site, u)
         /\ NoFarther(sim.sites, sim.locations[l].site, u, v)
         /\ AmountAt(sim.sites, sim.locations[l].site, sim.locations[l].party)
               > AmountAt(sim.sites, u, sim.locations[l].party)
         /\ AmountAt(sim.sites, u, sim.locations[l].party)
               > AmountAt(sim.sites, v, sim.locations[l].party)
         /\ AmountAt(sim.sites, v, sim.locations[l].party) > 0

(***************************************************************************)
(* Farmers: a village without tokens, whose pressure sends out a farmer    *)
(* every twenty days, and a town created some days before the first one.   *)
(* Site 1 (the village's) and site 2 are joined by an edge, site 3 has no  *)
(* edge; sites 2 and 3 produce wheat.                                      *)
(***************************************************************************)
FarmWorld(length) ==
    [sites |-> << [pos |-> <<0, 0, 6>>, rgo |-> RgoNone],
                  [pos |-> <<length, 0, 6>>, rgo |-> RgoWheat],
                  [pos |-> <<0, 640, 6>>, rgo |-> RgoWheat] >>,
     connections |-> << <<1, 2>> >>]

\* The lengths of the edge, in 64ths.
FarmLengths == {44, 48}

MaxFarmDays == 22

FarmTownDay == 17

InitFarm ==
    /\ sim \in {init(FarmWorld(length)) : length \in FarmLengths}
    /\ halted = NoPanic
    /\ last = NoRequest
    /\ plan = <<>>
    /\ issued = NoneIssued
    /\ probe = <<>>

FarmVillage ==
    /\ issued.creates = 0
    /\ Request([NoRequest EXCEPT
                   !.create_entity_cmds =
                       <<create_location(1, SomeFaction, "village", RZero, <<>>)>>,
                   !.num_ticks = TICKS_IN_DAY])

FarmTown ==
    /\ issued.creates = 1
    /\ Elapsed = FarmTownDay * TICKS_IN_DAY
    /\ \E site \in {2, 3} :
         Request([NoRequest EXCEPT
                     !.create_entity_cmds =
                         <<create_location(site, SomeFaction, "town", RZero,
                                           <<TokenCreate(1, 1000)>>)>>,
                     !.num_ticks = TICKS_IN_DAY])

FarmDay ==
    /\ issued.creates >= 1
    /\ Elapsed < MaxFarmDays * TICKS_IN_DAY
    /\ Request([NoRequest EXCEPT !.num_ticks = TICKS_IN_DAY])

NextFarm == FarmVillage \/ FarmTown \/ FarmDay \/ Continue

SpecFarm == InitFarm /\ [][NextFarm]_vars

\* C4: after every day tick, with its transfers and trades resolved, the
\* stock of every good in the market of every location lies between 0 and
\* population * 0.01 * 10.
C4_StockWithinCapacity ==
    DayTicked =>
        \A l \in DOMAIN sim.locations, g \in DOMAIN sim.good_types :
            /\ RLe(RZero, sim.locations[l].market.goods[g].stock)
            /\ RLe(sim.locations[l].market.goods[g].stock,
                   RMul(RMul(R(sim.locations[l].population), GOODS_POPULATION_SCALE),
                        R(10)))

\* The behaviors of simulation s with a local-trade goal whose base stands
\* on a site that carries no Market influence.
TradersWithoutMarket(s) ==
    {b \in DOMAIN s.beahviors :
        /\ s.beahviors[b].goal.k = "LocalTrade"
        /\ s.beahviors[b].goal.base \in DOMAIN s.parties
        /\ as_site(s.parties[s.beahviors[b].goal.base].position) # None
        /\ top_source(s.sites.entries[
                          as_site(s.parties[s.beahviors[b].goal.base].position)[1]
                      ].influences, "Market") = None}

\* The position of the party of the entity of behavior b.
PositionOf(s, b) == s.parties[s.entities[s.beahviors[b].entity].party[1]].position

\* C8 as stated: for a behavior with a local-trade goal whose base site
\* carries no Market influence, at every tick from the initial memory state
\* on, decide_task returns none, the entity holds no task and its party
\* stands where it stood.
C8_NoTaskWithoutMarket ==
    \A b \in TradersWithoutMarket(sim) :
        /\ decide_task(sim, sim.beahviors[b].goal, sim.beahviors[b].memory) = None
        /\ sim.beahviors[b].task = None
        /\ PositionOf(sim, b) = sim.parties[sim.beahviors[b].goal.base].position

\* What a tick does to behavior b of TradersWithoutMarket: from the initial
\* memory state it takes a task to trade at its own base, completes it on
\* the next tick and enters the outgoing state; from then on it has no task
\* and decide_task returns none; its party stands still throughout.
BaseThenIdle(b) ==
    /\ (sim.beahviors[b].memory.state = STATE_BEGIN /\ sim.beahviors[b].task = None)
          => /\ sim'.beahviors[b].memory.state = STATE_BEGIN
             /\ sim'.beahviors[b].task # None
             /\ sim'.beahviors[b].task[1].target = sim.beahviors[b].goal.base
             /\ sim'.beahviors[b].task[1].trade_with_target
    /\ (sim.beahviors[b].memory.state = STATE_BEGIN /\ sim.beahviors[b].task # None)
          => /\ sim'.beahviors[b].memory.state = STATE_OUTGOING
             /\ sim'.beahviors[b].task = None
    /\ sim.beahviors[b].memory.state = STATE_OUTGOING
          => /\ sim.beahviors[b].task = None
             /\ sim'.beahviors[b].memory.state = STATE_OUTGOING
             /\ sim'.beahviors[b].task = None
             /\ decide_task(sim', sim'.beahviors[b].goal, sim'.beahviors[b].memory) = None
    /\ sim.beahviors[b].memory.state # STATE_RETURING
    /\ PositionOf(sim', b) = PositionOf(sim, b)
    /\ PositionOf(sim, b) = sim.parties[sim.beahviors[b].goal.base].position

\* C8, amended: a behavior with a local-trade goal whose base site carries
\* no Market influence first trades at its base (one task, held for one
\* tick), and from the outgoing state on decide_task returns none at every
\* tick, the entity holds no task, and its party never moves.
C8_TradesAtBaseThenIdle ==
    [][\A b \in DOMAIN sim.beahviors \cap TradersWithoutMarket(sim') : BaseThenIdle(b)]_vars

\* A farmer past its trade at the base, idle for want of a market.
C8_IdleAfterBaseTrade ==
    \E b \in TradersWithoutMarket(sim) :
        /\ sim.beahviors[b].memory.state = STATE_OUTGOING
        /\ sim.beahviors[b].task = None

(***************************************************************************)
(* Coordinates: GridCoord::between and with_triple applied to a pair of    *)
(* sites and a parameter t in [0, 1].                                      *)
(***************************************************************************)
\* 0, 2^-30, 0.1, 0.25, 3 * 2^-25, 0.3, 0.5, 0.75, 1 - 2^-24, 1
CoordParams ==
    { F32Zero, [m |-> 2^23, e |-> -53], [m |-> 13421773, e |-> -27],
      [m |-> 2^23, e |-> -25], [m |-> 3 * 2^22, e |-> -47],
      [m |-> 10066330, e |-> -25], [m |-> 2^23, e |-> -24],
      [m |-> 3 * 2^22, e |-> -24], [m |-> 2^24 - 1, e |-> -24], F32One }

CoordSites == 1..3

InitCoord ==
    /\ sim = init(InitWorld)
    /\ halted = NoPanic
    /\ last = NoRequest
    /\ plan = <<>>
    /\ issued = NoneIssued
    /\ probe \in [a : CoordSites, b : CoordSites, t : CoordParams, result : {None}]

\* between(a, b, t), between(b, a, 1 - t) and with_triple(a, b, t).
CoordCall ==
    /\ probe.result = None
    /\ probe' = [probe EXCEPT !.result =
                    Some([there |-> GridCoordBetween(probe.a, probe.b, probe.t),
                          back |-> GridCoordBetween(probe.b, probe.a,
                                                    F32Sub(F32One, probe.t)),
                          triple |-> with_triple(probe.a, probe.b, probe.t)])]
    /\ UNCHANGED <<sim, halted, last, plan, issued>>

NextBetween == CoordCall

SpecCoord == InitCoord /\ [][NextBetween]_vars

CoordCalled == probe # <<>> /\ "t" \in DOMAIN probe /\ probe.result # None

\* t is a multiple of 2^-24, the spacing of the f32 values of [0.5, 1].
OnGrid(t) == t.m = 0 \/ t.e >= -24 \/ (t.e >= -47 /\ t.m % 2^(-24 - t.e) = 0)

\* Every Between value has the lower site id first.
LowerFirst(c) == c.k = "Between" => c.a < c.b

\* C11 as stated: for all sites a # b and all t in [0, 1], between(a, b, t)
\* equals between(b, a, 1 - t), and every Between value produced by
\* between or with_triple has the lower-id site as its first endpoint.
C11_BetweenSymmetric ==
    CoordCalled =>
        /\ probe.a # probe.b => probe.result[1].there = probe.result[1].back
        /\ LowerFirst(probe.result[1].there)
        /\ LowerFirst(probe.result[1].back)
        /\ LowerFirst(probe.result[1].triple)

\* C11, amended: between(a, b, t) equals between(b, a, 1 - t) for sites
\* a # b and every t in [0, 1] that is a multiple of 2^-24 (so that 1 - t
\* is exact in f32), and every Between value produced by between or
\* with_triple has the lower-id site as its first endpoint.
C11_BetweenSymmetricOnGrid ==
    CoordCalled =>
        /\ (probe.a # probe.b /\ OnGrid(probe.t))
              => probe.result[1].there = probe.result[1].back
        /\ LowerFirst(probe.result[1].there)
        /\ LowerFirst(probe.result[1].back)
        /\ LowerFirst(probe.result[1].triple)

\* between(2, 1, 0.75) and between(1, 2, 0.25) were computed and are the
\* same Between value.
C11_SwappedThreeQuarters ==
    /\ CoordCalled
    /\ probe.a > probe.b
    /\ probe.t = [m |-> 3 * 2^22, e |-> -24]
    /\ probe.result[1].there = RawBetween(probe.b, probe.a, [m |-> 2^23, e |-> -25])
    /\ probe.result[1].back = probe.result[1].there

\* The state after a request of at most one inner tick gave out, with the
\* view it returned.
ViewAnswered(out, request) ==
    /\ sim' = out.sim
    /\ plan' = out.planned
    /\ halted' = IF out.panicked # NoPanic THEN out.panicked
                 ELSE IF ViewPanics(out.sim, request) THEN "extract_view"
                 ELSE NoPanic
    /\ probe' = IF out.panicked # NoPanic \/ ViewPanics(out.sim, request) THEN <<>>
                ELSE SimViewOf(out.sim, request)

\* Simulation::tick called on a request of at most one inner tick, the
\* returned view being kept.
Viewed(request) ==
    /\ halted = NoPanic
    /\ issued.left = 0
    /\ request.num_ticks <= 1
    /\ \E tie \in {"lo", "hi"} : ViewAnswered(tick(sim, request, tie), request)
    /\ last' = request
    /\ issued' = [creates |-> issued.creates + Len(request.create_entity_cmds),
                  orders |-> issued.orders + Len(request.move_to),
                  left |-> 0]

(***************************************************************************)
(* The farm scenario with one request of no tick at the end of some day:   *)
(* objects to extract, among them the entity of a farmer that went home    *)
(* and was despawned.                                                       *)
(***************************************************************************)
\* The bound on the number of object ids of a request.
MaxObjects == 2

\* The object ids a client may hold: null, global, two sites, and every
\* entity id the simulation has given out so far.
ViewIds(s) ==
    {ObjectNull, ObjectGlobal, ObjectSite(1), ObjectSite(3)}
        \cup {ObjectEntity(e) : e \in 1..(s.next.entity - 1)}

IdLists(s) ==
    UNION {[1..n -> ViewIds(s)] : n \in 0..MaxObjects}

\* The scenario goes on while no view was taken.
FarmStep == probe = <<>> /\ NextFarm

FarmLook ==
    /\ probe = <<>>
    /\ issued.creates >= 1
    /\ issued.orders = 0
    /\ \E ids \in IdLists(sim) :
           Viewed([NoRequest EXCEPT !.objects_to_extract = ids])

\* The bound on the number of move orders.
MaxViewOrders == 2

\* A move order of no tick, once an entity was despawned: any entity id
\* given out so far as the subject, any object id as the target.
FarmOrder ==
    /\ probe = <<>>
    /\ issued.orders < MaxViewOrders
    /\ (1..(sim.next.entity - 1)) \ DOMAIN sim.entities # {}
    /\ \E subject \in 1..(sim.next.entity - 1), target \in ViewIds(sim) :
           Request([NoRequest EXCEPT
                       !.move_to = Some(<<ObjectEntity(subject), target>>)])

\* The ticks of a request that ends within a day.
PauseTicks == 12

\* A part of a day, once the town stands: the next request finds the
\* farmer on its way.
FarmHours ==
    /\ probe = <<>>
    /\ issued.creates >= 2
    /\ Elapsed < MaxFarmDays * TICKS_IN_DAY
    /\ Request([NoRequest EXCEPT !.num_ticks = PauseTicks])

\* A request of no tick with a creation command and, or, a move order of a
\* live entity to a site.
FarmPause ==
    /\ probe = <<>>
    /\ issued.creates >= 2
    /\ issued.orders = 0
    /\ \E site \in {1, 3},
          order \in {None} \cup {Some(<<ObjectEntity(e), ObjectSite(2)>>) :
                                     e \in DOMAIN sim.entities} :
           Viewed([NoRequest EXCEPT
                      !.create_entity_cmds = <<create_person(site, SomeFaction)>>,
                      !.move_to = order])

NextView == FarmStep \/ FarmLook \/ FarmOrder \/ FarmHours \/ FarmPause

SpecView == InitFarm /\ [][NextView]_vars

\* A view was returned by the last request.
Looked == halted = NoPanic /\ probe # <<>>

\* The entity ids given out whose entity is gone.
Despawned(s) == (1..(s.next.entity - 1)) \ DOMAIN s.entities

\* An object id that resolves to nothing: null, or a despawned entity.
Unresolved(s, id) ==
    id.k = "Null" \/ (id.k = "Entity" /\ id.id \in Despawned(s))

\* C12: the objects of the returned view are one entry per requested id, in
\* request order: none for the null id and for the id of a despawned entity,
\* the object of that id otherwise; and the extraction never fails.
C12_OneEntryPerRequestedId ==
    /\ halted # "extract_view"
    /\ Looked =>
          /\ Len(probe.objects) = Len(last.objects_to_extract)
          /\ \A i \in DOMAIN probe.objects :
                IF Unresolved(sim, last.objects_to_extract[i])
                THEN probe.objects[i] = None
                ELSE /\ probe.objects[i] # None
                     /\ probe.objects[i][1].id = last.objects_to_extract[i]

\* A view of a live entity followed by a despawned one.
C12_DespawnedAfterLive ==
    /\ Looked
    /\ Len(last.objects_to_extract) = 2
    /\ last.objects_to_extract[1].k = "Entity"
    /\ last.objects_to_extract[1].id \in DOMAIN sim.entities
    /\ last.objects_to_extract[2].k = "Entity"
    /\ last.objects_to_extract[2].id \in Despawned(sim)
    /\ probe.objects[1] # None
    /\ probe.objects[2] = None

\* An object id of an entity that was despawned.
Stale(s, id) == id.k = "Entity" /\ id.id \in Despawned(s)

\* The step is a move order, of no tick, whose subject or target is stale.
StaleOrder ==
    /\ issued'.orders = issued.orders + 1
    /\ last'.num_ticks = 0
    /\ \/ Stale(sim, last'.move_to[1][1])
       \/ Stale(sim, last'.move_to[1][2])

\* C13: a move order whose subject or target is the id of a despawned
\* entity completes without error and changes no party's movement target.
C13_StaleOrderIgnored ==
    [][StaleOrder =>
          /\ halted' = NoPanic
          /\ DOMAIN sim'.parties = DOMAIN sim.parties
          /\ \A p \in DOMAIN sim.parties :
                sim'.parties[p].movement.target = sim.parties[p].movement.target]_vars

(***************************************************************************)
(* Creation commands on the world of init: a faction, locations and        *)
(* persons at known and unknown sites, under known and unknown faction     *)
(* tags, each in a request of no tick, with single ticks in between.       *)
(***************************************************************************)
\* The bounds on the number of creation commands and of single ticks.
MaxCreates == 3

MaxCreateTicks == 2

\* A site tag that init does not define, and a faction tag never created.
UnknownSite == 7

UnknownFaction == 2

CreateSites == {1, 3, UnknownSite}

CreateFactions == {SomeFaction, UnknownFaction}

InitCreate == InitOver(InitWorld)

CreateFaction ==
    /\ issued.creates = 0
    /\ Request([NoRequest EXCEPT !.create_entity_cmds = <<create_faction(SomeFaction)>>])

CreateLocation ==
    /\ issued.creates < MaxCreates
    /\ \E site \in CreateSites, faction \in CreateFactions :
         Request([NoRequest EXCEPT
                     !.create_entity_cmds =
                         <<create_location(site, faction,
                                           IF site = 1 THEN "village" ELSE "town",
                                           RZero, <<TokenCreate(1, 100)>>)>>])

CreatePerson ==
    /\ issued.creates < MaxCreates
    /\ \E site \in CreateSites, faction \in CreateFactions :
         Request([NoRequest EXCEPT
                     !.create_entity_cmds = <<create_person(site, faction)>>])

CreateTick ==
    /\ Elapsed < MaxCreateTicks
    /\ Request([NoRequest EXCEPT !.num_ticks = 1])

NextCreate == CreateFaction \/ CreateLocation \/ CreatePerson \/ CreateTick

SpecCreate == InitCreate /\ [][NextCreate]_vars

\* The step is a request of no tick with one creation command.
CreateStep ==
    /\ issued'.creates = issued.creates + 1
    /\ last'.num_ticks = 0

\* The command names a site that is not defined, or a political parent
\* that no agent carries as its tag.
UnknownTag(s, command) ==
    \/ command.party # None /\ SitesLookup(s.sites, command.party[1].site) = None
    \/ command.location # None /\ SitesLookup(s.sites, command.location[1].site) = None
    \/ /\ command.agent # None
       /\ command.agent[1].political_parent # None
       /\ command.agent[1].political_parent[1] \notin DOMAIN s.agents.tags

\* The binding of sites and locations is mutual.
MutualBinding(s) ==
    /\ \A site \in SiteIds(s.sites) :
          s.sites.entries[site].location # None =>
              /\ s.sites.entries[site].location[1] \in DOMAIN s.locations
              /\ s.locations[s.sites.entries[site].location[1]].site = site
    /\ \A l \in DOMAIN s.locations :
          /\ s.locations[l].site \in SiteIds(s.sites)
          /\ s.sites.entries[s.locations[l].site].location = Some(l)

\* The step is a create-location command for a site that is bound.
DoubleBind ==
    /\ CreateStep
    /\ last'.create_entity_cmds[1].location # None
    /\ ~UnknownTag(sim, [last'.create_entity_cmds[1] EXCEPT !.agent = None])
    /\ sim.sites.entries[last'.create_entity_cmds[1].location[1].site].location # None

\* C14: a create-location or create-person command with an unknown site
\* tag or an unknown faction tag is skipped as a whole: the tick completes
\* and no entity, agent, party, location or token container is added.
\* (Stated for the commands that do not also name a bound site.)
C14_UnknownTagSkipped ==
    [][CreateStep /\ ~DoubleBind /\ UnknownTag(sim, last'.create_entity_cmds[1]) =>
          /\ halted' = NoPanic
          /\ DOMAIN sim'.entities = DOMAIN sim.entities
          /\ DOMAIN sim'.agents.entries = DOMAIN sim.agents.entries
          /\ DOMAIN sim'.parties = DOMAIN sim.parties
          /\ DOMAIN sim'.locations = DOMAIN sim.locations
          /\ sim'.tokens.next_container = sim.tokens.next_container]_vars

ZeroTickStep == issued.left = 0 /\ issued'.left = 0 /\ last'.num_ticks = 0

\* What a step leaves alone when no time passes.
TimeFrame ==
    /\ sim'.date = sim.date
    /\ \A p \in DOMAIN sim.parties :
          /\ p \in DOMAIN sim'.parties
          /\ sim'.parties[p].position = sim.parties[p].position
          /\ sim'.parties[p].movement.path = sim.parties[p].movement.path
    /\ \A site \in SiteIds(sim.sites) :
          sim'.sites.entries[site].influences = sim.sites.entries[site].influences
    /\ \A l \in DOMAIN sim.locations :
          /\ l \in DOMAIN sim'.locations
          /\ sim'.locations[l].market = sim.locations[l].market
    /\ \A a \in DOMAIN sim.pressurables :
          /\ a \in DOMAIN sim'.pressurables
          /\ sim'.pressurables[a].current = sim.pressurables[a].current
    /\ \A b \in DOMAIN sim.beahviors :
          /\ b \in DOMAIN sim'.beahviors
          /\ sim'.beahviors[b].task = sim.beahviors[b].task
          /\ sim'.beahviors[b].memory = sim.beahviors[b].memory

\* C16: a request with tick count 0 advances no time: it leaves the date,
\* the position and path of every party, the influences of every site,
\* every market, every pressure value and the task and memory of every
\* behavior as they were.
C16_ZeroTicksAdvanceNothing == [][ZeroTickStep => TimeFrame]_vars

\* A request of no tick that created a person and gave an order, taken
\* while a farmer with a task was on a path.
C16_PausedOnTheWay ==
    /\ Looked
    /\ last.num_ticks = 0
    /\ last.create_entity_cmds # <<>>
    /\ last.move_to # None
    /\ \E b \in DOMAIN sim.beahviors :
          /\ sim.beahviors[b].task # None
          /\ sim.entities[sim.beahviors[b].entity].party # None
          /\ sim.parties[sim.entities[sim.beahviors[b].entity].party[1]]
                 .movement.path # <<>>
          /\ sim.parties[sim.entities[sim.beahviors[b].entity].party[1]]
                 .position.k = "Between"

\* The kinds of map items: a settlement party owns a location, a
\* free-roaming party does not, a standalone site item is a site.
IsSettlement(s, item) ==
    item.kind = "Party" /\ s.entities[item.id.id].location # None

IsRoaming(s, item) ==
    item.kind = "Party" /\ s.entities[item.id.id].location = None

IsStandalone(item) == item.kind = "Site"

\* C17: in the map items of the returned view every settlement party comes
\* before every standalone site item, and every standalone site item comes
\* before every free-roaming party.
C17_SettlementsSitesRoaming ==
    Looked =>
        \A i, j \in DOMAIN probe.map_items :
            /\ IsSettlement(sim, probe.map_items[i]) /\ IsStandalone(probe.map_items[j])
                   => i < j
            /\ IsStandalone(probe.map_items[i]) /\ IsRoaming(sim, probe.map_items[j])
                   => i < j

\* C17 as the code has it: every standalone site item comes before every
\* party, and every settlement party before every free-roaming party.
C17_SitesSettlementsRoaming ==
    Looked =>
        \A i, j \in DOMAIN probe.map_items :
            /\ IsStandalone(probe.map_items[i]) /\ probe.map_items[j].kind = "Party"
                   => i < j
            /\ IsSettlement(sim, probe.map_items[i]) /\ IsRoaming(sim, probe.map_items[j])
                   => i < j

\* A view with a standalone site, a settlement and a free-roaming party
\* between two sites.
C17_AllThreeKinds ==
    /\ Looked
    /\ \E i, j, k \in DOMAIN probe.map_items :
          /\ IsStandalone(probe.map_items[i])
          /\ IsSettlement(sim, probe.map_items[j])
          /\ IsRoaming(sim, probe.map_items[k])
          /\ sim.parties[sim.entities[probe.map_items[k].id.id].party[1]]
                 .position.k = "Between"

(***************************************************************************)
(* trade::resolve on two events against one market, processed in either    *)
(* order: two traders with cash, the first carrying some of the first      *)
(* good, and a market of two goods.                                        *)
(***************************************************************************)
PairTrader(cash, quantity, id) ==
    [cash |-> cash, quantity |-> quantity,
     event |-> [party |-> id, agent |-> id, location |-> 1]]

\* The one location of the events, with its market.
PairLocations(goods) == [l \in {1} |-> [market |-> [goods |-> goods]]]

InitPair ==
    /\ sim = init(InitWorld)
    /\ halted = NoPanic
    /\ last = NoRequest
    /\ plan = <<>>
    /\ issued = NoneIssued
    /\ \E c1, c2 \in TradeCash, q \in TradeQuantity, p \in TradePrice,
          s1, s2 \in TradeStock :
         probe = [first |-> PairTrader(c1, <<q, RZero>>, 1),
                  second |-> PairTrader(c2, <<RZero, RZero>>, 2),
                  goods |-> <<TradeGood(p, s1), TradeGood(R(20), s2)>>,
                  result |-> None]

\* The process loop of trade::resolve over the two traders, in the order
\* given and in the other.
PairCall ==
    /\ probe.result = None
    /\ probe' = [probe EXCEPT !.result =
                    Some([forth |-> ProcessTraders(
                                        [locations |-> PairLocations(probe.goods),
                                         traders |-> <<probe.first, probe.second>>], 1),
                          back |-> ProcessTraders(
                                       [locations |-> PairLocations(probe.goods),
                                        traders |-> <<probe.second, probe.first>>], 1)])]
    /\ UNCHANGED <<sim, halted, last, plan, issued>>

NextPair == PairCall

SpecPair == InitPair /\ [][NextPair]_vars

PairCalled == probe # <<>> /\ "first" \in DOMAIN probe /\ probe.result # None

\* C18: the state after the trades of a tick does not depend on the order
\* in which the events are processed: two events against one market leave
\* the same market and the same two traders in either order.
C18_TradeOrderIndependent ==
    PairCalled =>
        /\ probe.result[1].forth.locations = probe.result[1].back.locations
        /\ probe.result[1].forth.traders[1] = probe.result[1].back.traders[2]
        /\ probe.result[1].forth.traders[2] = probe.result[1].back.traders[1]

\* Every party, agent, location, behavior and pressure record of s belongs
\* to an entity of s that names it.
Owned(s) ==
    /\ \A p \in DOMAIN s.parties :
          /\ s.parties[p].entity \in DOMAIN s.entities
          /\ s.entities[s.parties[p].entity].party = Some(p)
    /\ \A a \in DOMAIN s.agents.entries :
          /\ s.agents.entries[a].entity \in DOMAIN s.entities
          /\ s.entities[s.agents.entries[a].entity].agent = Some(a)
    /\ \A l \in DOMAIN s.locations :
          /\ s.locations[l].entity \in DOMAIN s.entities
          /\ s.entities[s.locations[l].entity].location = Some(l)
    /\ \A b \in DOMAIN s.beahviors :
          /\ s.beahviors[b].entity \in DOMAIN s.entities
          /\ s.entities[s.beahviors[b].entity].behavior = Some(b)
    /\ \A a \in DOMAIN s.pressurables :
          /\ s.pressurables[a].entity \in DOMAIN s.entities
          /\ s.entities[s.pressurables[a].entity].pressure_agent = Some(a)

\* Nothing the entity record named is left in s.
Cascaded(s, entity) ==
    /\ entity.party # None => entity.party[1] \notin DOMAIN s.parties
    /\ entity.agent # None => entity.agent[1] \notin DOMAIN s.agents.entries
    /\ entity.behavior # None => entity.behavior[1] \notin DOMAIN s.beahviors
    /\ entity.pressure_agent # None =>
           entity.pressure_agent[1] \notin DOMAIN s.pressurables
    /\ entity.location # None => entity.location[1] \notin DOMAIN s.locations

\* C19: at the end of the tick in which a behavior requests despawn its
\* entity and the sub-records it owns are gone, no behavior is left with a
\* despawn requested, and every remaining party, agent, location, behavior
\* and pressure record has an owning entity that still exists.
C19_DespawnCascades ==
    /\ [](/\ Owned(sim)
          /\ \A b \in DOMAIN sim.beahviors : ~sim.beahviors[b].request_despawn)
    /\ [][\A e \in DOMAIN sim.entities \ DOMAIN sim'.entities :
              Cascaded(sim', sim.entities[e])]_vars

\* A farmer was despawned by the last tick of the day.
C19_FarmerGone ==
    /\ halted = NoPanic
    /\ Idle
    /\ (1..(sim.next.entity - 1)) \ DOMAIN sim.entities # {}
    /\ sim.next.party - 1 \notin DOMAIN sim.parties
    /\ sim.next.behavior - 1 \notin DOMAIN sim.beahviors
    /\ sim.next.agent - 1 \notin DOMAIN sim.agents.entries
    /\ Owned(sim)

(***************************************************************************)
(* The behavior phase on a farmer with a task in flight: a village at site *)
(* 1, a town at site 2, two farmers of the village, the second of them     *)
(* despawned; the first farmer's task is one of the three that decide_task *)
(* makes, its target a party, the null key, or the party that is gone.     *)
(***************************************************************************)
\* The village, the town and the two farmers created, the second farmer
\* despawned.
TaskWorld ==
    LET settled == process_entity_create_commands(
                       init(FarmWorld(44)),
                       << create_location(1, SomeFaction, "village", RZero, <<>>),
                          create_location(2, SomeFaction, "town", RZero,
                                          <<TokenCreate(1, 1000)>>) >>).sim
        farmed == process_entity_create_commands(
                      settled,
                      handle_pressure_events(settled,
                                             <<[target |-> 1], [target |-> 1]>>)).sim
    IN DespawnOne(farmed, 4)

\* The task decide_task makes in a memory state, aimed at a target.
TaskInState(state, target) ==
    IF state = STATE_OUTGOING
    THEN [TaskDefault EXCEPT !.target = target, !.on_complete_state = STATE_RETURING,
                             !.trade_with_target = TRUE]
    ELSE [TaskDefault EXCEPT
             !.target = target,
             !.give_away_to_target = (state = STATE_RETURING),
             !.trade_with_target = (state # STATE_RETURING),
             !.despawn_on_complete = (state = STATE_RETURING),
             !.on_complete_state =
                 IF state # STATE_RETURING THEN STATE_OUTGOING ELSE STATE_RETURING]

\* The parties of the village, of the town and of the farmer that is gone.
TaskTargets == {NullKey, 1, 2, 4}

TaskPositions == {At(1), At(2)} \cup {GridCoordBetween(1, 2, t) : t \in CoordParams}

InitTask ==
    /\ \E state \in {STATE_BEGIN, STATE_OUTGOING, STATE_RETURING},
          target \in TaskTargets, position \in TaskPositions :
         /\ sim = [TaskWorld EXCEPT
                      !.beahviors[1].task = Some(TaskInState(state, target)),
                      !.beahviors[1].memory.state = state,
                      !.parties[3].position = position]
         /\ probe = [task |-> TaskInState(state, target), ticked |-> FALSE]
    /\ halted = NoPanic
    /\ last = NoRequest
    /\ plan = <<>>
    /\ issued = NoneIssued

\* tick_behaviors with its transfers and trades resolved.
BehaviorTick ==
    /\ ~probe.ticked
    /\ sim' = BehaviorPhase(Run(sim)).sim
    /\ probe' = [probe EXCEPT !.ticked = TRUE]
    /\ UNCHANGED <<halted, last, plan, issued>>

NextTask == BehaviorTick

SpecTask == InitTask /\ [][NextTask]_vars

TaskTicked == probe # <<>> /\ "ticked" \in DOMAIN probe /\ probe.ticked

BeforeBehaviors(s) == EconomyPhase(PressurePhase(InfluencePhase(DatePhase(Run(s)))))

\* The behavior phase of the next inner tick can run.
BehaviorsRun(s) ==
    /\ BeforeBehaviors(s).panicked = NoPanic
    /\ ~BehaviorPanics(BeforeBehaviors(s).sim)

\* The validation of the task that behavior b holds in s.
ValidationOf(s, b) ==
    validate_task(s, s.beahviors[b].task[1],
                  s.parties[s.entities[s.beahviors[b].entity].party[1]])

\* Behavior b of s holds a task that the behavior phase finds over.
Completes(s, b) == s.beahviors[b].task # None /\ ValidationOf(s, b).is_over

\* Behavior b completes a trade-on-arrival task at a party with a location.
CompletesTrade(s, b) ==
    /\ Completes(s, b)
    /\ s.beahviors[b].task[1].trade_with_target
    /\ ValidationOf(s, b).at_target # None
    /\ s.parties[ValidationOf(s, b).at_target[1]].location # None

\* Behavior b completes the return leg: in state 2, at its base.
CompletesReturn(s, b) ==
    /\ Completes(s, b)
    /\ s.beahviors[b].memory.state = STATE_RETURING
    /\ s.beahviors[b].task[1].give_away_to_target
    /\ ValidationOf(s, b).at_target = Some(s.beahviors[b].goal.base)

\* The party of behavior b.
PartyOf(s, b) == s.entities[s.beahviors[b].entity].party[1]

\* What the behavior phase eff = tick_behaviors(s) did to the local-trade
\* behaviors of s.
LocalTradeSteps(s, eff) ==
    /\ \A b \in DOMAIN s.beahviors :
          s.beahviors[b].goal.k = "LocalTrade" =>
              /\ eff.sim.beahviors[b].memory.state
                     \in {s.beahviors[b].memory.state, s.beahviors[b].memory.state + 1}
              /\ eff.sim.beahviors[b].memory.state
                     \in {STATE_BEGIN, STATE_OUTGOING, STATE_RETURING}
              /\ eff.sim.beahviors[b].request_despawn
                     => s.beahviors[b].request_despawn \/ CompletesReturn(s, b)
              /\ Completes(s, b) =>
                     eff.sim.beahviors[b].task =
                         decide_task(s, s.beahviors[b].goal,
                                     eff.sim.beahviors[b].memory)
    /\ \A i \in DOMAIN eff.trade_events :
          \E b \in DOMAIN s.beahviors :
              /\ CompletesTrade(s, b)
              /\ eff.trade_events[i].party = PartyOf(s, b)
              /\ Some(eff.trade_events[i].location)
                     = s.parties[ValidationOf(s, b).at_target[1]].location
    /\ Len(eff.trade_events) <= Cardinality({b \in DOMAIN s.beahviors : CompletesTrade(s, b)})
    /\ \A i \in DOMAIN eff.transfers :
          \E b \in DOMAIN s.beahviors :
              /\ CompletesReturn(s, b)
              /\ eff.transfers[i].source = PartyOf(s, b)
              /\ eff.transfers[i].target = s.beahviors[b].goal.base
    /\ Len(eff.transfers) <= Cardinality({b \in DOMAIN s.beahviors : CompletesReturn(s, b)})

\* C21: for a local-trade behavior the memory state only moves forward
\* through 0, 1, 2; a trade event is queued only when a trade-on-arrival
\* task completes at a party that owns a location; a transfer to the base
\* is queued, and the despawn requested, only when the return-leg task
\* completes in state 2; and a completed task is replaced in the same
\* behavior tick by the task decided from the goal.
C21_LocalTradeForward ==
    halted = NoPanic /\ BehaviorsRun(sim) =>
        LocalTradeSteps(BeforeBehaviors(sim).sim,
                        tick_behaviors(BeforeBehaviors(sim).sim))

\* The next behavior phase completes a return leg: one transfer, the
\* despawn requested, no trade.
C21_ReturnLegCompletes ==
    /\ halted = NoPanic
    /\ BehaviorsRun(sim)
    /\ Len(tick_behaviors(BeforeBehaviors(sim).sim).transfers) = 1
    /\ tick_behaviors(BeforeBehaviors(sim).sim).trade_events = <<>>
    /\ \E b \in DOMAIN sim.beahviors :
          /\ sim.beahviors[b].memory.state = STATE_RETURING
          /\ tick_behaviors(BeforeBehaviors(sim).sim).sim.beahviors[b].request_despawn

(***************************************************************************)
(* The farm scenario under continued ticking, on the farm graph and on a   *)
(* chain of three sites where the town may stand two edges from the        *)
(* village.                                                                *)
(***************************************************************************)
\* Sites 1, 2, 3 in a line, 22/64 apart, the last with a wheat RGO.
ChainWorld ==
    [sites |-> << [pos |-> <<0, 0, 6>>, rgo |-> RgoNone],
                  [pos |-> <<22, 0, 6>>, rgo |-> RgoNone],
                  [pos |-> <<44, 0, 6>>, rgo |-> RgoWheat] >>,
     connections |-> << <<1, 2>>, <<2, 3>> >>]

InitTrip ==
    /\ sim \in {init(FarmWorld(44)), init(ChainWorld)}
    /\ halted = NoPanic
    /\ last = NoRequest
    /\ plan = <<>>
    /\ issued = NoneIssued
    /\ probe = <<>>

\* A request of the farm scenario can be made or continued.
FarmCanStep ==
    /\ halted = NoPanic
    /\ \/ issued.left > 0
       \/ issued.creates = 0
       \/ Elapsed < MaxFarmDays * TICKS_IN_DAY

\* The caller goes on: a request of a day is made, with or without a
\* creation command, or the request in progress runs its next inner tick.
FarmGoesOn ==
    /\ FarmCanStep
    /\ issued' \in {[issued EXCEPT !.left = @ - 1],
                    [issued EXCEPT !.left = TICKS_IN_DAY - 1],
                    [issued EXCEPT !.left = TICKS_IN_DAY - 1, !.creates = @ + 1]}
    /\ issued'.left >= 0
    /\ issued' # issued

\* The requests of the farm scenario, the caller going on to tick.
SpecTrip == InitTrip /\ [][NextFarm]_vars /\ WF_issued(FarmGoesOn)

\* A Market influence reaches the site of the base of behavior b.
MarketAtBase(s, b) ==
    /\ s.beahviors[b].goal.k = "LocalTrade"
    /\ s.beahviors[b].goal.base \in DOMAIN s.parties
    /\ as_site(s.parties[s.beahviors[b].goal.base].position) # None
    /\ top_source(s.sites.entries[
                      as_site(s.parties[s.beahviors[b].goal.base].position)[1]]
                      .influences, "Market") # None

\* A local-trade entity is alive and a market reaches its base.
TraderOut == halted = NoPanic /\ \E b \in DOMAIN sim.beahviors : MarketAtBase(sim, b)

\* Every local-trade entity spawned so far is gone.
TradersGone ==
    /\ halted = NoPanic
    /\ DOMAIN sim.beahviors = {}
    /\ (1..(sim.next.entity - 1)) \ DOMAIN sim.entities # {}

\* The entity e of sim, gone after the step, had completed the outbound leg
\* and is removed by the tick whose behavior phase queued its one transfer,
\* from its party to its base.
RemovedWithTransfer(e) ==
    /\ sim.entities[e].behavior # None
    /\ sim.beahviors[sim.entities[e].behavior[1]].memory.state = STATE_RETURING
    /\ BehaviorsRun(sim)
    /\ Cardinality({i \in DOMAIN tick_behaviors(BeforeBehaviors(sim).sim).transfers :
                       tick_behaviors(BeforeBehaviors(sim).sim).transfers[i]
                           = [source |-> sim.entities[e].party[1],
                              target |-> sim.beahviors[sim.entities[e].behavior[1]]
                                             .goal.base]}) = 1

\* C22: when a Market influence reaches the base site, an entity spawned
\* with a local-trade behavior is eventually despawned under continued
\* ticking, after the outbound and the return leg; it is removed in the
\* tick in which its one transfer to its base is queued and resolved.
C22_TraderReturnsAndLeaves ==
    /\ TraderOut ~> TradersGone
    /\ [][\A e \in DOMAIN sim.entities \ DOMAIN sim'.entities :
              RemovedWithTransfer(e)]_vars

\* On the chain, with the town two edges away, the farmer is gone.
C22_GoneTwoEdgesAway ==
    /\ TradersGone
    /\ Len(sim.sites.entries[1].neighbours) = 1
    /\ sim.sites.entries[2].location = None
    /\ sim.sites.entries[3].location # None
    /\ sim.sites.entries[1].influences # <<>>

(***************************************************************************)
(* The farm scenario with requests of part of a day and with move orders   *)
(* to an entity that bears a behavior, given in a request that ticks.      *)
(***************************************************************************)
\* The bound on the number of orders to behavior-bearing entities.
MaxDiverts == 1

\* The entities that bear a behavior.
Behaving(s) == {s.beahviors[b].entity : b \in DOMAIN s.beahviors}

FarmDivert ==
    /\ issued.orders < MaxDiverts
    /\ \E e \in Behaving(sim), site \in {1, 2} :
           Request([NoRequest EXCEPT
                       !.move_to = Some(<<ObjectEntity(e), ObjectSite(site)>>),
                       !.num_ticks = PauseTicks])

NextDivert == NextFarm \/ FarmHours \/ FarmDivert

SpecDivert == InitFarm /\ [][NextDivert]_vars

\* The movement target the second loop of tick_behaviors gives for a task.
TargetOfTask(task) ==
    IF task # None /\ task[1].target # NullKey
    THEN Some(MovementTargetParty(task[1].target))
    ELSE None

\* The party of every behavior-bearing entity is aimed at its task's target.
AimedAtTasks(s) ==
    \A b \in DOMAIN s.beahviors :
        s.parties[PartyOf(s, b)].movement.target = TargetOfTask(s.beahviors[b].task)

\* The step is the first inner tick of a request that orders a
\* behavior-bearing entity about.
DivertStep ==
    /\ issued'.orders = issued.orders + 1
    /\ last'.num_ticks >= 1
    /\ last'.move_to[1][1].id \in Behaving(sim)

\* The parties after the step are those of the same request without the
\* order.
AsIfNotOrdered ==
    \E tie \in {"lo", "hi"} :
        sim'.parties = tick(sim, [last' EXCEPT !.move_to = None], tie).sim.parties

\* C23: after every time-advancing tick the party of each behavior-bearing
\* entity has the movement target Party(task.target) when its task has a
\* non-null target, and none otherwise; a move order to such an entity does
\* not determine its movement in a time-advancing tick.
C23_BehaviorSetsTarget ==
    /\ [](halted = NoPanic /\ last.num_ticks >= 1 => AimedAtTasks(sim))
    /\ [][DivertStep => halted' = NoPanic /\ AsIfNotOrdered]_vars

\* A farmer on its way to the town's party was ordered to site 1 by the
\* request in progress, and moves on towards the town.
C23_OrderedButOnTask ==
    /\ halted = NoPanic
    /\ last.num_ticks >= 1
    /\ last.move_to # None
    /\ last.move_to[1][2] = ObjectSite(1)
    /\ \E b \in DOMAIN sim.beahviors :
          /\ sim.beahviors[b].entity = last.move_to[1][1].id
          /\ sim.beahviors[b].memory.state = STATE_OUTGOING
          /\ sim.beahviors[b].task # None
          /\ sim.parties[PartyOf(sim, b)].movement.target
                 = Some(MovementTargetParty(sim.beahviors[b].task[1].target))
          /\ sim.parties[PartyOf(sim, b)].position.k = "Between"
          /\ sim.parties[PartyOf(sim, b)].movement.destination # Some(At(1))

(***************************************************************************)
(* Anchors: towns and persons founded on the movement graph, then ordered  *)
(* about, the towns included, in requests of no tick and of one tick.      *)
(***************************************************************************)
MaxAnchors == 2

MaxAnchorOrders == 2

MaxAnchorTicks == 3

AnchorFound ==
    /\ issued.creates < MaxAnchors
    /\ Elapsed = 0
    /\ \E site \in SiteIds(sim.sites) :
         \E command \in {create_person(site, SomeFaction),
                         create_location(site, SomeFaction, "town", RZero, <<>>)} :
            Request([NoRequest EXCEPT !.create_entity_cmds = <<command>>])

AnchorOrder ==
    /\ issued.creates >= 1
    /\ issued.orders < MaxAnchorOrders
    /\ Elapsed < MaxAnchorTicks
    /\ \E subject \in DOMAIN sim.entities, target \in MoveTargets, ticks \in {0, 1} :
         Request([NoRequest EXCEPT
                     !.move_to = Some(<<ObjectEntity(subject), target>>),
                     !.num_ticks = ticks])

AnchorTick ==
    /\ issued.creates >= 1
    /\ Elapsed < MaxAnchorTicks
    /\ Request([NoRequest EXCEPT !.num_ticks = 1])

NextAnchor == AnchorFound \/ AnchorOrder \/ AnchorTick

SpecAnchor == InitMove /\ [][NextAnchor]_vars

\* The parties that do not move: movement_speed == 0.0.
Anchored(s) == {p \in DOMAIN s.parties : s.parties[p].movement_speed = F32Zero}

\* The party of the subject of the last request's move order, if any.
OrderedParty(s) ==
    IF last.move_to # None /\ last.move_to[1][1].k = "Entity"
       /\ last.move_to[1][1].id \in DOMAIN s.entities
    THEN s.entities[last.move_to[1][1].id].party
    ELSE None

\* C24: a party of movement speed 0 keeps its position over every request,
\* move orders addressed to it included, and after every tick that advances
\* time its movement target and destination are none and its path is empty.
C24_AnchorsStayPut ==
    /\ [][\A p \in Anchored(sim) :
             /\ p \in DOMAIN sim'.parties
             /\ sim'.parties[p].position = sim.parties[p].position]_vars
    /\ [](halted = NoPanic /\ last.num_ticks >= 1 =>
             \A p \in Anchored(sim) :
                sim.parties[p].movement = PartyMovementDefault)

\* A town was ordered to another site in a request of one tick.
C24_AnchorOrdered ==
    /\ halted = NoPanic
    /\ last.num_ticks = 1
    /\ OrderedParty(sim) # None
    /\ OrderedParty(sim)[1] \in Anchored(sim)
    /\ last.move_to[1][2].k = "Site"
    /\ At(last.move_to[1][2].id) # sim.parties[OrderedParty(sim)[1]].position

(***************************************************************************)
(* The chase: on the farm, a person is created at an end of the edge and   *)
(* ordered after a farmer, who is despawned at the end of his trip.        *)
(***************************************************************************)
MaxHunters == 1

MaxChases == 1

FarmHunter ==
    /\ issued.creates \in 2..(1 + MaxHunters)
    /\ \E site \in {1, 2} :
         Request([NoRequest EXCEPT
                     !.create_entity_cmds = <<create_person(site, SomeFaction)>>])

\* The entities with a party that moves and no behavior.
Hunters(s) ==
    {e \in DOMAIN s.entities \ Behaving(s) :
        /\ s.entities[e].party # None
        /\ s.parties[s.entities[e].party[1]].movement_speed # F32Zero}

FarmChase ==
    /\ issued.orders < MaxChases
    /\ \E hunter \in Hunters(sim), e \in Behaving(sim) :
         Request([NoRequest EXCEPT
                     !.move_to = Some(<<ObjectEntity(hunter), ObjectEntity(e)>>),
                     !.num_ticks = PauseTicks])

NextChase == NextFarm \/ FarmHours \/ FarmHunter \/ FarmChase

SpecChase == InitFarm /\ [][NextChase]_vars

\* The moving parties of s whose target is a party that is gone.
Pursuing(s) ==
    {p \in DOMAIN s.parties :
        /\ s.parties[p].movement_speed # F32Zero
        /\ s.parties[p].movement.target # None
        /\ s.parties[p].movement.target[1].k = "Party"
        /\ s.parties[p].movement.target[1].id \notin DOMAIN s.parties}

\* C25: a moving party whose target party is gone, and whose target is not
\* changed, keeps its position over every step; after a step that advances
\* time its destination is none and its path is empty.
C25_LostTargetHalts ==
    [][\A p \in Pursuing(sim) :
          halted' = NoPanic /\ p \in DOMAIN sim'.parties
          /\ sim'.parties[p].movement.target = sim.parties[p].movement.target
          => /\ sim'.parties[p].position = sim.parties[p].position
             /\ sim'.date # sim.date =>
                   /\ sim'.parties[p].movement.destination = None
                   /\ sim'.parties[p].movement.path = <<>>]_vars

\* A pursuer stands between two sites, its target gone and its path cleared.
C25_HaltedMidEdge ==
    /\ halted = NoPanic
    /\ \E p \in Pursuing(sim) :
         /\ sim.parties[p].position.k = "Between"
         /\ sim.parties[p].movement.destination = None
         /\ sim.parties[p].movement.path = <<>>

\* The step is the first inner tick of a request of at least one tick whose
\* move order sends the moving party p to site, another site that can be
\* reached from where p stands.
OrderedToSite(p, site) ==
    /\ last'.num_ticks >= 1
    /\ sim'.date = sim.date + 1
    /\ last'.move_to = Some(<<ObjectEntity(sim.parties[p].entity), ObjectSite(site)>>)
    /\ sim.parties[p].movement_speed # F32Zero
    /\ sim.parties[p].entity \notin Behaving(sim)
    /\ sim.parties[p].position # At(site)
    /\ Reachable(sim.sites, sim.parties[p].position.a, site)

\* The parties of s that are after party q.
After(s, q) ==
    {p \in DOMAIN s.parties :
        /\ s.parties[p].movement_speed # F32Zero
        /\ s.parties[p].movement.target = Some(MovementTargetParty(q))}

\* C26: a move order that comes with a request of one tick or more, sends
\* a moving party without behavior to another site it can reach, and is
\* followed within that request's first tick: after it the destination is
\* the site, the path ends there and the position has changed.  A party
\* after another party has for destination the position that party had
\* before the tick's movement.
C26_OrderFollowedInFirstTick ==
    /\ [][\A p \in DOMAIN sim.parties, site \in SiteIds(sim.sites) :
             OrderedToSite(p, site) =>
                /\ halted' = NoPanic
                /\ sim'.parties[p].movement.destination = Some(At(site))
                /\ PathEndpoint(sim'.parties[p].movement.path) = Some(At(site))
                /\ sim'.parties[p].position # sim.parties[p].position
                /\ is_colinear(sim'.parties[p].position, sim.parties[p].position)]_vars
    /\ [][\A q \in DOMAIN sim.parties : \A p \in After(sim', q) :
             halted' = NoPanic /\ sim'.date # sim.date =>
                sim'.parties[p].movement.destination = Some(sim.parties[q].position)]_vars

\* A person ordered to a site in a request of one tick is on its way there,
\* while another is after it, bound for the place it has just left.
C26_OnTheWayAndPursued ==
    /\ halted = NoPanic
    /\ last.num_ticks = 1
    /\ OrderedParty(sim) # None
    /\ last.move_to[1][2].k = "Site"
    /\ LET q == OrderedParty(sim)[1]
       IN /\ sim.parties[q].position.k = "Between"
          /\ sim.parties[q].movement.destination = Some(At(last.move_to[1][2].id))
          /\ \E p \in After(sim, q) :
                /\ sim.parties[p].movement.destination # None
                /\ sim.parties[p].movement.destination # Some(sim.parties[q].position)

\* C27: for every positive amount carried in the influence list of a site,
\* the amount propagated over each of the site's edges is strictly less.
C27_DecaysOnEveryHop ==
    \A s \in DOMAIN sim.sites.entries :
        \A i \in DOMAIN sim.sites.entries[s].influences,
           n \in DOMAIN sim.sites.entries[s].neighbours :
            LET entry == sim.sites.entries[s].influences[i]
            IN entry.amount > 0 =>
                  decay(entry.typ.kind, entry.amount,
                        sim.sites.entries[s].neighbours[n][2]) < entry.amount

(***************************************************************************)
(* The spread: up to two towns founded at different times on the graphs    *)
(* of four sites with three edges or more, cycles among them.              *)
(***************************************************************************)
MaxTowns == 2

MaxSpreadTicks == 5

SpreadWorlds == {w \in AstarWorlds : w.sites = LineSites /\ Len(w.connections) >= 3}

InitSpread ==
    /\ sim \in {init(w) : w \in SpreadWorlds}
    /\ halted = NoPanic
    /\ last = NoRequest
    /\ plan = <<>>
    /\ issued = NoneIssued
    /\ probe = <<>>

SpreadTown ==
    /\ issued.creates < MaxTowns
    /\ Elapsed < MaxSpreadTicks
    /\ \E site \in SiteIds(sim.sites), size \in TownSizes :
         /\ sim.sites.entries[site].location = None
         /\ Request([NoRequest EXCEPT
                        !.create_entity_cmds =
                            <<create_location(site, SomeFaction, "town", RZero,
                                              <<TokenCreate(3, size)>>)>>,
                        !.num_ticks = 1])

SpreadTick ==
    /\ issued.creates >= 1
    /\ Elapsed < MaxSpreadTicks
    /\ Request([NoRequest EXCEPT !.num_ticks = 1])

NextSpread == SpreadTown \/ SpreadTick

SpecSpread == InitSpread /\ [][NextSpread]_vars

\* The power that the source emits at the site in s, 0 when it emits none
\* there.
PowerAt(s, site, source) ==
    LET ls == {l \in DOMAIN s.locations :
                  s.locations[l].site = site /\ s.locations[l].party = source}
        own == IF ls = {} THEN <<>>
               ELSE LocationInfluences(s.locations[CHOOSE l \in ls : TRUE])
    IN IF own = <<>> THEN 0 ELSE own[1].amount

\* The amounts of the source that reach the site from its neighbours, each
\* decayed once.
FromNeighbours(s, site, source) ==
    {LET a == AmountAt(s.sites, s.sites.entries[site].neighbours[n][1], source)
     IN IF a = 0 THEN 0
        ELSE decay("Market", a, s.sites.entries[site].neighbours[n][2]) :
        n \in DOMAIN s.sites.entries[site].neighbours}

\* The greatest of the power emitted at the site and of what comes from the
\* neighbours.
GreatestOf(s, site, source) ==
    LET all == {PowerAt(s, site, source)} \cup FromNeighbours(s, site, source)
    IN CHOOSE a \in all : \A b \in all : b <= a

\* The list has its entries in increasing order of typ, no typ twice, and
\* no amount that is not positive.
SortedList(influences) ==
    /\ \A i \in 1..(Len(influences) - 1) :
          InfluenceTypeLess(influences[i].typ, influences[i + 1].typ)
    /\ \A i \in DOMAIN influences : influences[i].amount > 0

\* C28: after every propagation step every site's list is sorted by typ
\* with one entry per typ at most, and the amount of a source is the
\* greatest, not the sum, of its power at the site and of the decayed
\* amounts the neighbours held before the step; the power of a source
\* never falls, and no amount of a source exceeds it.
C28_GreatestContribution ==
    /\ [][halted' = NoPanic /\ sim'.date # sim.date =>
            \A site \in SiteIds(sim.sites) :
               /\ SortedList(sim'.sites.entries[site].influences)
               /\ \A source \in DOMAIN sim'.parties :
                     AmountAt(sim'.sites, site, source) = GreatestOf(sim, site, source)]_vars
    /\ [][\A l \in DOMAIN sim.locations :
             PowerAt(sim', sim.locations[l].site, sim.locations[l].party)
                >= PowerAt(sim, sim.locations[l].site, sim.locations[l].party)]_vars
    /\ [](\A l \in DOMAIN sim.locations, site \in SiteIds(sim.sites) :
             AmountAt(sim.sites, site, sim.locations[l].party)
                <= PowerAt(sim, sim.locations[l].site, sim.locations[l].party))

\* A site holds the amounts of two sources, one of which reaches it over
\* two of its edges at once.
C28_TwoSourcesTwoWays ==
    /\ halted = NoPanic
    /\ \E site \in SiteIds(sim.sites) :
         /\ Len(sim.sites.entries[site].influences) = 2
         /\ \E l \in DOMAIN sim.locations :
               /\ sim.locations[l].site # site
               /\ Cardinality({n \in DOMAIN sim.sites.entries[site].neighbours :
                     AmountAt(sim.sites, sim.sites.entries[site].neighbours[n][1],
                              sim.locations[l].party) > 1}) >= 2
               /\ AmountAt(sim.sites, site, sim.locations[l].party) > 1

\* The number of edges of the shortest walk from a site to another that it
\* reaches.
Hops(sites, from, to) ==
    CHOOSE k \in 0..Len(sites.entries) :
        /\ to \in Within(sites, {from}, k)
        /\ \A j \in 0..(k - 1) : to \notin Within(sites, {from}, j)

\* The propagation steps made since the town first emitted: its power is 0
\* in the tick after its creation, so its first emitting step is the third
\* tick.
StepsEmitted == IF Elapsed >= 2 THEN Elapsed - 2 ELSE 0

\* C29: a town emits from its third tick on, and from lists that were
\* empty its influence is at a site d hops away after d + 1 propagation
\* steps and not before; it is never at a site out of reach.
C29_OneHopAStep ==
    \A l \in DOMAIN sim.locations :
        LET from == sim.locations[l].site
            source == sim.locations[l].party
        IN /\ PowerAt(sim, from, source) > 0 <=> Elapsed >= 2
           /\ \A site \in SiteIds(sim.sites) :
                 IF Reachable(sim.sites, from, site)
                 THEN AmountAt(sim.sites, site, source) > 0
                         <=> StepsEmitted >= Hops(sim.sites, from, site) + 1
                 ELSE AmountAt(sim.sites, site, source) = 0

\* After three steps the influence is at a site two hops away and not yet
\* at a site of higher id three hops away.
C29_ThirdStepTwoHops ==
    /\ halted = NoPanic
    /\ StepsEmitted = 3
    /\ \E l \in DOMAIN sim.locations, site, far \in SiteIds(sim.sites) :
         /\ Reachable(sim.sites, sim.locations[l].site, site)
         /\ Reachable(sim.sites, sim.locations[l].site, far)
         /\ Hops(sim.sites, sim.locations[l].site, site) = 2
         /\ Hops(sim.sites, sim.locations[l].site, far) = 3
         /\ site < far
         /\ AmountAt(sim.sites, site, sim.locations[l].party) > 0
         /\ AmountAt(sim.sites, far, sim.locations[l].party) = 0

\* What the good g gets of the cash the trader holds at the start of the
\* buy phase: its share by weight.
CashShare(sold, g) ==
    LET weights == [h \in DOMAIN sold.goods |-> BuyWeight(sold.goods[h])]
    IN RMul(sold.cash, RDiv(weights[g], RSum(weights, DOMAIN weights)))

\* C30: in the buy phase every good is bought with its share by weight of
\* the cash the trader holds at the start of the phase, whatever was spent
\* on the goods visited before it: the purchase is the lesser of that share
\* over the price and of the stock.
C30_SharesOfStartingCash ==
    probe # <<>> /\ "trader" \in DOMAIN probe /\ probe.result # None =>
        LET sold == PerformSales(probe.trader.cash, probe.trader.quantity, probe.goods, 1)
        IN (\E h \in DOMAIN sold.goods : BuyWeight(sold.goods[h]) # RZero) =>
              \A g \in DOMAIN sold.goods :
                  probe.result[1].quantity[g] =
                      RAdd(sold.quantity[g],
                           RMin(RDiv(CashShare(sold, g), sold.goods[g].price),
                                sold.goods[g].stock))

(***************************************************************************)
(* transfer::resolve applied on its own: a village at site 1, a town at    *)
(* site 2 and three farmers of the village carrying goods; one or two      *)
(* transfer events from farmers to any other party.                        *)
(***************************************************************************)
TransferWorld ==
    LET settled == process_entity_create_commands(
                       init(FarmWorld(44)),
                       << create_location(1, SomeFaction, "village", RZero, <<>>),
                          create_location(2, SomeFaction, "town", RZero,
                                          <<TokenCreate(1, 1000)>>) >>).sim
    IN process_entity_create_commands(
           settled,
           handle_pressure_events(settled,
                                  <<[target |-> 1], [target |-> 1], [target |-> 1]>>)).sim

\* The goods a farmer may carry, good by good.
TransferLoads ==
    { <<RZero, RZero, RZero, RZero>>, <<R(2), RZero, RZero, R(1)>>,
      <<<<5, 2>>, R(3), RZero, RZero>> }

TransferSources == {3, 4, 5}

TransferEvents ==
    {[source |-> s, target |-> t] : s \in TransferSources, t \in DOMAIN TransferWorld.parties}
        \ {[source |-> s, target |-> s] : s \in TransferSources}

InitTransfer ==
    /\ \E load \in [TransferSources -> TransferLoads] :
          sim = [TransferWorld EXCEPT
                    !.parties = [p \in DOMAIN @ |->
                                    IF p \in TransferSources
                                    THEN [@[p] EXCEPT !.good_stock = load[p]]
                                    ELSE @[p]]]
    /\ \E first, second \in TransferEvents :
          probe \in {[events |-> <<first>>, before |-> <<>>],
                     [events |-> <<first, second>>, before |-> <<>>]}
    /\ halted = NoPanic
    /\ last = NoRequest
    /\ plan = <<>>
    /\ issued = NoneIssued

\* transfer::resolve on the events; the simulation before it is kept.
TransferCall ==
    /\ probe.before = <<>>
    /\ sim' = TransferResolve(sim, probe.events)
    /\ probe' = [probe EXCEPT !.before = <<sim>>]
    /\ UNCHANGED <<halted, last, plan, issued>>

NextTransfer == TransferCall

SpecTransfer == InitTransfer /\ [][NextTransfer]_vars

TransferResolved == probe # <<>> /\ "before" \in DOMAIN probe /\ probe.before # <<>>

\* No party gives twice and no party that gives also receives.
SeparateEvents(events) ==
    /\ \A i, j \in DOMAIN events : events[i].source = events[j].source => i = j
    /\ \A i, j \in DOMAIN events : events[i].target # events[j].source

\* What the events send to a party of a good, from the loads held before.
RECURSIVE SentTo(_, _, _, _)
SentTo(before, events, p, g) ==
    IF events = <<>> THEN RZero
    ELSE RAdd(IF Head(events).target = p
              THEN before.parties[Head(events).source].good_stock[g] ELSE RZero,
              SentTo(before, Tail(events), p, g))

\* C31: once the transfer events are resolved every source carries nothing
\* and, good by good, the carried stock of a target without location, or
\* the market stock and stock_delta of the location of a target with one,
\* has grown by what the sources sent it; nothing else has changed.
C31_WholeLoadMoved ==
    TransferResolved /\ SeparateEvents(probe.events) =>
        LET before == probe.before[1]
            sources == {probe.events[i].source : i \in DOMAIN probe.events}
        IN /\ [sim EXCEPT !.parties = before.parties, !.locations = before.locations]
                 = before
           /\ \A p \in DOMAIN before.parties :
                 /\ [sim.parties[p] EXCEPT !.good_stock = before.parties[p].good_stock]
                       = before.parties[p]
                 /\ \A g \in DOMAIN before.parties[p].good_stock :
                       sim.parties[p].good_stock[g] =
                          IF p \in sources THEN RZero
                          ELSE IF before.parties[p].location # None
                          THEN before.parties[p].good_stock[g]
                          ELSE RAdd(before.parties[p].good_stock[g],
                                    SentTo(before, probe.events, p, g))
           /\ \A l \in DOMAIN before.locations :
                 /\ [sim.locations[l] EXCEPT !.market.goods = before.locations[l].market.goods]
                       = before.locations[l]
                 /\ \A g \in DOMAIN before.locations[l].market.goods :
                       LET sent == SentTo(before, probe.events, before.locations[l].party, g)
                           was == before.locations[l].market.goods[g]
                       IN sim.locations[l].market.goods[g] =
                             [was EXCEPT !.stock = RAdd(@, sent),
                                         !.stock_delta = RAdd(@, sent)]

\* Two loaded farmers gave, one to a settlement and one to the third farmer.
C31_ToMarketAndToParty ==
    /\ TransferResolved
    /\ SeparateEvents(probe.events)
    /\ Len(probe.events) = 2
    /\ probe.before[1].parties[probe.events[1].target].location # None
    /\ probe.before[1].parties[probe.events[2].target].location = None
    /\ \A i \in {1, 2} :
          probe.before[1].parties[probe.events[i].source].good_stock[1] # RZero
    /\ sim.parties[probe.events[2].target].good_stock[1] # RZero

\* The step is an inner tick that falls on a day boundary.
DayStep ==
    /\ halted' = NoPanic
    /\ sim'.date = sim.date + 1
    /\ is_new_day(sim'.date)

\* C32: after a day tick, for every good of every location,
\* supply_from_stock is the stock of the day before times 0.05,
\* supply_effective is supply_base plus supply_from_stock, and
\* demand_effective is demand_base.
C32_EffectiveSupplyCountsStock ==
    [][DayStep =>
          \A l \in DOMAIN sim.locations \cap DOMAIN sim'.locations :
              \A g \in DOMAIN sim.locations[l].market.goods :
                  LET old == sim.locations[l].market.goods[g]
                      new == sim'.locations[l].market.goods[g]
                  IN /\ new.supply_from_stock = RMul(old.stock, STOCK_SUPPLY_BONUS)
                     /\ new.supply_effective = RAdd(new.supply_base, new.supply_from_stock)
                     /\ new.demand_effective = new.demand_base]_vars

\* The step is an inner tick that advances time.
TimeStep == halted' = NoPanic /\ sim'.date = sim.date + 1

\* The stock left of a good by one day's rebuilding of the market: the old
\* stock and the day's supply less what was consumed, within the capacity.
StockAfterDay(old, new, population) ==
    RClamp(RSub(RAdd(old.stock, new.supply_base), new.consumed), RZero,
           RMul(RMul(R(population), GOODS_POPULATION_SCALE), R(10)))

\* C33: an inner tick that advances time sets the population of every
\* location to the sum of the sizes of the Pop tokens of its container; off
\* a day boundary it leaves the location's market as it was, and on a day
\* boundary it rebuilds the market once.
C33_MarketOnlyOnDayTicks ==
    [][TimeStep =>
          \A l \in DOMAIN sim.locations \cap DOMAIN sim'.locations :
              /\ sim'.locations[l].population =
                     count_size(sim.tokens, sim.locations[l].tokens, "Pop")
              /\ ~is_new_day(sim'.date) =>
                     sim'.locations[l].market = sim.locations[l].market
              /\ is_new_day(sim'.date) =>
                     \A g \in DOMAIN sim.locations[l].market.goods :
                         sim'.locations[l].market.goods[g].stock =
                             StockAfterDay(sim.locations[l].market.goods[g],
                                           sim'.locations[l].market.goods[g],
                                           sim'.locations[l].population)]_vars

\* Off a day boundary, a populated location holds the stock its market was
\* left with by an earlier day.
C33_StockKeptBetweenDays ==
    /\ halted = NoPanic
    /\ last.num_ticks >= 1
    /\ ~is_new_day(sim.date)
    /\ \E l \in DOMAIN sim.locations :
         /\ sim.locations[l].population > 0
         /\ RLt(RZero, sim.locations[l].market.goods[1].stock)

(***************************************************************************)
(* Roaming: two persons on a connected graph with short edges (a line, a   *)
(* triangle, a square), ordered to sites and after each other every few    *)
(* ticks, also while they stand between two sites.                         *)
(***************************************************************************)
RoamSites ==
    << [pos |-> <<0, 0, 3>>, rgo |-> RgoNone], [pos |-> <<1, 1, 3>>, rgo |-> RgoNone],
       [pos |-> <<2, 0, 3>>, rgo |-> RgoNone], [pos |-> <<1, -1, 3>>, rgo |-> RgoNone] >>

RoamWorlds ==
    { [sites |-> SubSeq(RoamSites, 1, 3), connections |-> << <<1, 2>>, <<2, 3>> >>],
      [sites |-> SubSeq(RoamSites, 1, 3),
       connections |-> << <<1, 2>>, <<2, 3>>, <<1, 3>> >>],
      [sites |-> RoamSites,
       connections |-> << <<1, 2>>, <<2, 3>>, <<3, 4>>, <<1, 4>> >>] }

MaxRoamers == 2

MaxRoamOrders == 2

\* The ticks of a request, and the bound on the ticks of a run.
RoamTicks == 3

MaxRoamTicks == 12

InitRoam ==
    /\ sim \in {init(w) : w \in RoamWorlds}
    /\ halted = NoPanic
    /\ last = NoRequest
    /\ plan = <<>>
    /\ issued = NoneIssued
    /\ probe = <<>>

RoamCreate ==
    /\ issued.creates < MaxRoamers
    /\ Elapsed = 0
    /\ \E site \in SiteIds(sim.sites) :
         Request([NoRequest EXCEPT
                     !.create_entity_cmds = <<create_person(site, SomeFaction)>>])

RoamOrder ==
    /\ issued.creates = MaxRoamers
    /\ issued.orders < MaxRoamOrders
    /\ Elapsed < MaxRoamTicks
    /\ \E subject \in DOMAIN sim.entities, target \in MoveTargets \ {ObjectNull} :
         Request([NoRequest EXCEPT
                     !.move_to = Some(<<ObjectEntity(subject), target>>),
                     !.num_ticks = RoamTicks])

RoamTick ==
    /\ issued.orders >= 1
    /\ Elapsed < MaxRoamTicks
    /\ Request([NoRequest EXCEPT !.num_ticks = RoamTicks])

NextRoam == RoamCreate \/ RoamOrder \/ RoamTick \/ Continue

SpecRoam == InitRoam /\ [][NextRoam]_vars

\* The coordinate lies on the edge between sites a and b.
LiesOn(c, a, b) == IF c.k = "At" THEN c.a \in {a, b} ELSE {c.a, c.b} = {a, b}

\* Two coordinates lie on a common edge of the graph.
OnCommonEdge(sites, c, o) ==
    \E a \in SiteIds(sites) :
        \E n \in DOMAIN sites.entries[a].neighbours :
            /\ LiesOn(c, a, sites.entries[a].neighbours[n][1])
            /\ LiesOn(o, a, sites.entries[a].neighbours[n][1])

\* C34: on a connected graph, when the positions are about to be updated,
\* every party with a path has its position and the head of its path on a
\* common edge, every two waypoints that follow each other on a common
\* edge, and its destination for last waypoint; no tick panics.
C34_PathsAlongEdges ==
    /\ halted = NoPanic
    /\ \A p \in DOMAIN plan :
            LET path == plan[p].movement.path
            IN path # <<>> =>
                  /\ OnCommonEdge(sim.sites, plan[p].position, PathBeginning(path)[1])
                  /\ as_colinear(plan[p].position, PathBeginning(path)[1]) # None
                  /\ \A i \in 1..(Len(path) - 1) :
                        OnCommonEdge(sim.sites, path[i], path[i + 1])
                  /\ PathEndpoint(path) = plan[p].movement.destination

\* A party between two sites starts on a path of three waypoints or more
\* that ends between two sites, where the party it is after stands.
C34_FromEdgeToEdge ==
    /\ halted = NoPanic
    /\ \E p \in DOMAIN plan :
         /\ plan[p].position.k = "Between"
         /\ Len(plan[p].movement.path) >= 3
         /\ PathEndpoint(plan[p].movement.path)[1].k = "Between"

(***************************************************************************)
(* Tokens::add_token called on its own: two containers of the token store  *)
(* of init, and a few calls with any container, type and size.             *)
(***************************************************************************)
MaxAdds == 3

AddTypes == {1, 2, 4}

AddSizes == {0, 5, 50}

InitTokens ==
    /\ sim = [init(InitWorld) EXCEPT !.tokens = add_container(add_container(@))]
    /\ halted = NoPanic
    /\ last = NoRequest
    /\ plan = <<>>
    /\ issued = NoneIssued
    /\ probe = <<>>

\* One call of add_token; the calls made are kept in order.
TokenAdd ==
    /\ Len(probe) < MaxAdds
    /\ \E container \in DOMAIN sim.tokens.containers, typ \in AddTypes, size \in AddSizes :
         /\ sim' = [sim EXCEPT !.tokens = add_token(@, container, typ, size)]
         /\ probe' = Append(probe, [container |-> container, typ |-> typ, size |-> size])
    /\ UNCHANGED <<halted, last, plan, issued>>

NextTokens == TokenAdd

SpecTokens == InitTokens /\ [][NextTokens]_vars

\* The calls made for a container and a type, and the sum of their sizes.
CallsFor(calls, container, typ) ==
    {i \in DOMAIN calls : calls[i].container = container /\ calls[i].typ = typ}

RECURSIVE SizesAdded(_, _, _)
SizesAdded(calls, container, typ) ==
    IF calls = <<>> THEN 0
    ELSE (IF Head(calls).container = container /\ Head(calls).typ = typ
          THEN Head(calls).size ELSE 0)
         + SizesAdded(Tail(calls), container, typ)

\* The tokens of a type held by a container.
TokensOfType(tokens, container, typ) ==
    {id \in tokens.containers[container] : tokens.tokens[id].typ = typ}

\* C35: after any calls of add_token a container holds one token at most
\* of a type, none when no call named the pair and else one whose size is
\* the sum of the sizes of the calls that named it; every token is held by
\* the container it names.
C35_OneTokenPerType ==
    /\ \A container \in DOMAIN sim.tokens.containers, typ \in DOMAIN sim.tokens.types :
          LET held == TokensOfType(sim.tokens, container, typ)
          IN IF CallsFor(probe, container, typ) = {} THEN held = {}
             ELSE /\ Cardinality(held) = 1
                  /\ \A id \in held :
                        sim.tokens.tokens[id].size = SizesAdded(probe, container, typ)
    /\ \A id \in DOMAIN sim.tokens.tokens :
          /\ sim.tokens.tokens[id].container \in DOMAIN sim.tokens.containers
          /\ id \in sim.tokens.containers[sim.tokens.tokens[id].container]
    /\ \A c, d \in DOMAIN sim.tokens.containers :
          c # d => sim.tokens.containers[c] \cap sim.tokens.containers[d] = {}

\* Two calls were merged into a token of size 55 while the other container
\* holds a token of the same type.
C35_MergedBesideAnother ==
    /\ Len(probe) = 3
    /\ \E c, d \in DOMAIN sim.tokens.containers, typ \in AddTypes :
         /\ c # d
         /\ Cardinality(CallsFor(probe, c, typ)) = 2
         /\ \E id \in TokensOfType(sim.tokens, c, typ) : sim.tokens.tokens[id].size = 55
         /\ \E id \in TokensOfType(sim.tokens, d, typ) : sim.tokens.tokens[id].size = 50

\* resolve_trade has been applied to the trader and the market of probe.
TradeResolved == probe # <<>> /\ "trader" \in DOMAIN probe /\ probe.result # None

\* The value of the quantities at the prices of the market.
ValueOf(quantity, goods) ==
    RSum([g \in DOMAIN goods |-> RMul(goods[g].price, quantity[g])], DOMAIN goods)

\* C36: over a trade, for every good, the trader's quantity plus the market
\* stock stays the same and the market's stock and stock_delta change by
\* the same amount; the trader's cash ends at 0 or more, and what was bought
\* costs no more than the cash held after the sales.
C36_GoodsConservedNoDebt ==
    TradeResolved =>
        /\ \A g \in DOMAIN probe.goods :
              /\ RAdd(probe.result[1].quantity[g], probe.result[1].goods[g].stock)
                    = RAdd(probe.trader.quantity[g], probe.goods[g].stock)
              /\ RSub(probe.result[1].goods[g].stock, probe.goods[g].stock)
                    = RSub(probe.result[1].goods[g].stock_delta, probe.goods[g].stock_delta)
              /\ RLe(RZero, probe.result[1].quantity[g])
              /\ RLe(RZero, probe.result[1].goods[g].stock)
        /\ RLe(RZero, probe.result[1].cash)
        /\ RLe(ValueOf(probe.result[1].quantity, probe.goods),
               RAdd(probe.trader.cash, ValueOf(probe.trader.quantity, probe.goods)))
        /\ probe.result[1].cash =
              RSub(RAdd(probe.trader.cash, ValueOf(probe.trader.quantity, probe.goods)),
                   ValueOf(probe.result[1].quantity, probe.goods))

\* The trader sold two units of the first good and bought of the second,
\* less than the market held, for cash left above 0.
C36_SoldAndBought ==
    /\ TradeResolved
    /\ probe.trader.quantity[1] = R(2)
    /\ RLt(RZero, probe.result[1].quantity[2])
    /\ RLt(RZero, probe.result[1].goods[2].stock)
    /\ RLt(RZero, probe.result[1].cash)

(***************************************************************************)
(* propagate_influences called on its own: one source of a fixed power at  *)
(* a site of a graph of four sites with one to three edges, which emits    *)
(* for some steps and then stops; the steps go on without it.              *)
(***************************************************************************)
FadeWorlds == {w \in AstarWorlds : w.sites = LineSites /\ Len(w.connections) \in 1..3}

FadePowers == {1, 3, 100}

\* The parties that the influence type of the source may name.
FadeParties == {1, 2}

InitFade ==
    /\ sim \in {init(w) : w \in FadeWorlds}
    /\ probe \in [site : {1, 2}, source : FadeParties, power : FadePowers, emitting : {TRUE}, odd : {FALSE}]
    /\ halted = NoPanic
    /\ last = NoRequest
    /\ plan = <<>>
    /\ issued = NoneIssued

\* The sources handed to propagate_influences while the source emits.
FadeSources ==
    [site \in {probe.site} |->
        <<[typ |-> [kind |-> "Market", source |-> probe.source], amount |-> probe.power]>>]

\* A propagation step with the source emitting.
FadeEmit ==
    /\ probe.emitting
    /\ sim' = [sim EXCEPT !.sites = propagate_influences(@, FadeSources)]
    /\ probe' = [probe EXCEPT !.odd = ~@]
    /\ UNCHANGED <<halted, last, plan, issued>>

\* The source stops contributing.
FadeStop ==
    /\ probe.emitting
    /\ probe' = [probe EXCEPT !.emitting = FALSE]
    /\ UNCHANGED <<sim, halted, last, plan, issued>>

\* A propagation step without the source.
FadeStep ==
    /\ ~probe.emitting
    /\ sim' = [sim EXCEPT !.sites = propagate_influences(@, <<>>)]
    /\ probe' = [probe EXCEPT !.odd = ~@]
    /\ UNCHANGED <<halted, last, plan, issued>>

NextFade == FadeEmit \/ FadeStop \/ FadeStep

\* The caller goes on: after the stop another propagation step is made.
FadeGoesOn ==
    /\ ~probe.emitting
    /\ probe' = [probe EXCEPT !.odd = ~@]

\* Once the source has stopped the steps keep coming, tick after tick.
SpecFade == InitFade /\ [][NextFade]_vars /\ WF_probe(FadeGoesOn)

\* The source has stopped contributing.
FadeStopped == probe # <<>> /\ "emitting" \in DOMAIN probe /\ ~probe.emitting

\* No influence list holds an entry of the source.
FadedAway ==
    \A site \in SiteIds(sim.sites) : AmountAt(sim.sites, site, probe.source) = 0

MaxOnceCommands == 2

MaxOnceTicks == 3

MaxOnceCreates == 3

MaxOnceElapsed == 4

OnceCommands ==
    { create_faction(SomeFaction),
      create_location(1, SomeFaction, "village", RZero, <<TokenCreate(1, 100)>>),
      create_location(3, SomeFaction, "town", RZero, <<TokenCreate(1, 100)>>),
      create_person(1, SomeFaction),
      create_person(UnknownSite, UnknownFaction) }

OnceLists == UNION {[1..k -> OnceCommands] : k \in 0..MaxOnceCommands}

InitOnce == InitOver(InitWorld)

OnceRequest ==
    /\ Idle
    /\ \E cmds \in OnceLists, n \in 0..MaxOnceTicks :
         /\ issued.creates + Len(cmds) <= MaxOnceCreates
         /\ Elapsed + n <= MaxOnceElapsed
         /\ Request([NoRequest EXCEPT !.create_entity_cmds = cmds, !.num_ticks = n])

NextOnce == OnceRequest \/ Continue

SpecOnce == InitOnce /\ [][NextOnce]_vars

\* The entities of t that s does not have are those of the commands, one
\* for each command, in the order of the commands.
AddedFrom(s, t, commands) ==
    /\ DOMAIN t.entities = DOMAIN s.entities \cup
           {s.next.entity + i - 1 : i \in DOMAIN commands}
    /\ \A i \in DOMAIN commands :
          /\ s.next.entity + i - 1 \notin DOMAIN s.entities
          /\ t.entities[s.next.entity + i - 1].kind_name = commands[i].kind_name

\* C38: the creation commands of a request are applied exactly once: the
\* first inner tick of a request of k commands (the zero-time pass when
\* num_ticks is 0) adds k entities, one for each command, and every later
\* inner tick of the request adds none.
C38_CommandsAppliedOnce ==
    [][halted' = NoPanic =>
          /\ issued.left = 0 => AddedFrom(sim, sim', last'.create_entity_cmds)
          /\ issued.left > 0 => DOMAIN sim'.entities = DOMAIN sim.entities]_vars

\* A request of two commands and three ticks has run to its end and there
\* are two entities.
C38_TwoCommandsThreeTicks ==
    /\ halted = NoPanic
    /\ Idle
    /\ Len(last.create_entity_cmds) = 2
    /\ last.num_ticks = 3
    /\ Elapsed = 3
    /\ issued.creates = 2
    /\ Cardinality(DOMAIN sim.entities) = 2

(***************************************************************************)
(* Date on its own: a date made by with_calendar from a day, a month and   *)
(* a year, and advanced tick by tick for a little more than a day.         *)
(***************************************************************************)
MaxYear == 2

MaxAdvances == 73

InitCalendar ==
    /\ sim = init(InitWorld)
    /\ halted = NoPanic
    /\ last = NoRequest
    /\ plan = <<>>
    /\ issued = NoneIssued
    /\ \E day \in 1..DAYS_IN_MONTH, month \in 1..MONTHS_IN_YEAR, year \in 0..MaxYear :
         probe = [day |-> day, month |-> month, year |-> year,
                  date |-> DateWithCalendar(day, month, year), advances |-> 0]

\* Date::advance
CalendarAdvance ==
    /\ probe.advances < MaxAdvances
    /\ probe' = [probe EXCEPT !.date = DateAdvance(@), !.advances = @ + 1]
    /\ UNCHANGED <<sim, halted, last, plan, issued>>

SpecCalendar == InitCalendar /\ [][CalendarAdvance]_vars

\* The day and the month of the date are those of a calendar.
InCalendar(date) ==
    /\ calendar_day(date) \in 1..DAYS_IN_MONTH
    /\ calendar_month(date) \in 1..MONTHS_IN_YEAR

====
